---- MODULE Spec2Model ----
(***************************************************************************)
(* State-machine model of the RAG scripts: text extraction and embedding   *)
(* generation (generate_embeddings.py), ingestion into the search index    *)
(* (ingest_docs_with_embeddings.py), index creation (create_index.py) and  *)
(* index deletion (delete_index.py).                                       *)
(*                                                                         *)
(* Python values are modelled as follows: a str is a sequence of           *)
(* one-character strings, a list is a sequence, a dict is a record whose   *)
(* DOMAIN is its key set, a float of an embedding is the integer ten times *)
(* its value, and the result of dict.get is an optional value (None or     *)
(* Some(v)).                                                               *)
(***************************************************************************)
EXTENDS Integers, Sequences, FiniteSets, TLC

VARIABLES
    pdf,      \* the source document: a sequence of raw page texts, or Unopenable
    file,     \* ../data/text_with_embeddings.json: NoFile or its JSON content
    cluster,  \* the search cluster: index name -> NoIndex or [body, docs]
    op,       \* the last operation run: its name, input, requests, result
    hist,     \* ingestion history of index "rag" since it was last created
    pc,       \* concurrent ingestion: per process, the position in its page list
    written   \* concurrent ingestion: per process, the number of accepted writes

vars == <<pdf, file, cluster, op, hist, pc, written>>

-----------------------------------------------------------------------------
(* Bounds of the model.                                                    *)

MaxPages == 2       \* pages of the source document
MaxTextLen == 2     \* characters of one page's raw text
MaxRuns == 2        \* ingestion runs into one index before it is cleared
MaxSecrets == 2     \* secrets in one listing of the secret store
MaxSecretLen == 2   \* characters of one value of a secret

-----------------------------------------------------------------------------
(* Python values.                                                          *)

\* The characters a page text is drawn from: one whitespace, one letter.
Chars == {" ", "a"}

\* str.isspace for one character (what str.strip removes by default).
IsSpace(c) == c \in {" ", "\n", "\t", "\r"}

\* A Python list, as isinstance(data, list) sees it.
PyList(items) == [type |-> "list", items |-> items]

\* dict.get(key): None when the key is absent.
None == [some |-> FALSE]

Some(v) == [some |-> TRUE, val |-> v]

Get(d, key) == IF key \in DOMAIN d THEN Some(d[key]) ELSE None

\* All sequences over S of length at most n.
SeqsUpTo(S, n) == UNION {[1..k -> S] : k \in 0..n}

RawTexts == SeqsUpTo(Chars, MaxTextLen)

\* A PDF that cannot be opened (fitz.open raises).
Unopenable == [unopenable |-> TRUE]

PDFs == {[pages |-> p] : p \in SeqsUpTo(RawTexts, MaxPages)}

-----------------------------------------------------------------------------
(* generate_embeddings.py: extract_text_from_pdf                          *)

\* str.lstrip(): drop leading whitespace, one character at a time.
RECURSIVE LStrip(_)
LStrip(s) ==
    IF s = <<>> THEN <<>>
    ELSE IF IsSpace(Head(s)) THEN LStrip(Tail(s))
    ELSE s

\* str.rstrip(): drop trailing whitespace, one character at a time.
RECURSIVE RStrip(_)
RStrip(s) ==
    IF s = <<>> THEN <<>>
    ELSE IF IsSpace(s[Len(s)]) THEN RStrip(SubSeq(s, 1, Len(s) - 1))
    ELSE s

\* A faulty variant of Strip: only the leading whitespace is removed.
StripLeadingOnly(s) == LStrip(s)

\* str.strip(): text.strip() of line 52.
Strip(s) == RStrip(LStrip(s))

\* A faulty variant of PageNumber: the 0-based loop index is stored.
PageNumberZeroBased(page_num) == page_num

\* The page number stored for loop index page_num (0-based): line 51.
PageNumber(page_num) == page_num + 1

\* The record appended for loop index page_num: lines 47-53.
PageRecord(doc, page_num) ==
    [page_number |-> PageNumber(page_num), text |-> Strip(doc.pages[page_num + 1])]

\* The loop of lines 46-54 over range(len(doc)), from index page_num on.
RECURSIVE ExtractFrom(_, _)
ExtractFrom(doc, page_num) ==
    IF page_num >= Len(doc.pages) THEN <<>>
    ELSE <<PageRecord(doc, page_num)>> \o ExtractFrom(doc, page_num + 1)

\* extract_text_from_pdf: raises when the PDF cannot be opened, else the pages.
extract_text_from_pdf(doc) ==
    IF doc = Unopenable
    THEN [result |-> "raised", value |-> <<>>]
    ELSE [result |-> "returned", value |-> ExtractFrom(doc, 0)]

-----------------------------------------------------------------------------
(* generate_embeddings.py: create_embeddings                              *)

\* The model id main configures (line 105) and another id a caller may pass.
EmbeddingModelId == "amazon.titan-embed-text-v1"

ModelIds == {EmbeddingModelId, "amazon.titan-embed-text-v2"}

\* The vectors the embedding model may return (floats scaled by ten).
Vectors == {<<1, 2, 3>>, <<4, 5, 6>>}

\* What one embed_query call does: it returns a vector or it raises.
EmbedOutcomes == {[ok |-> TRUE, vec |-> v] : v \in Vectors} \cup {[ok |-> FALSE]}

\* The request embed_query sends for one page: line 88 with the client of 79-82.
EmbedRequest(model_id, page) == [modelId |-> model_id, inputText |-> page.text]

\* page['vector_field'] = embedding: line 89.
SetVectorField(page, embedding) ==
    [k \in DOMAIN page \cup {"vector_field"} |->
        IF k = "vector_field" THEN embedding ELSE page[k]]

\* A faulty variant of OnEmbedError: the exception leaves the loop and the function.
OnEmbedErrorRaise(st) == [st EXCEPT !.result = "raised"]

\* The except branch of lines 91-92: the error is logged, the loop goes on.
OnEmbedError(st) == st

\* A faulty variant of EmbedStep: the vector is computed but not stored in the page.
EmbedStepNoStore(st, model_id, outcome) ==
    [st EXCEPT !.requests = Append(@, EmbedRequest(model_id, st.pages[st.idx])),
               !.idx = @ + 1]

\* One iteration of the loop of lines 84-92 for page st.idx.
EmbedStep(st, model_id, outcome) ==
    LET page == st.pages[st.idx]
        sent == [st EXCEPT !.requests = Append(@, EmbedRequest(model_id, page)),
                           !.idx = @ + 1]
    IN  IF outcome.ok
        THEN [sent EXCEPT !.pages[st.idx] = SetVectorField(page, outcome.vec)]
        ELSE OnEmbedError(sent)

\* The loop of lines 84-92 from loop state st on.
RECURSIVE EmbedLoop(_, _, _)
EmbedLoop(st, model_id, outcomes) ==
    IF st.idx > Len(st.pages) \/ st.result = "raised" THEN st
    ELSE EmbedLoop(EmbedStep(st, model_id, outcomes[st.idx]), model_id, outcomes)

\* create_embeddings(pages, bedrock_client, model_id): the pages it returns
\* and the requests it sent, the client answering call i with outcomes[i].
create_embeddings(pages, model_id, outcomes) ==
    LET st == EmbedLoop([pages |-> pages, idx |-> 1, requests |-> <<>>,
                         result |-> "returned"], model_id, outcomes)
    IN  [result |-> st.result, value |-> st.pages, requests |-> st.requests]

-----------------------------------------------------------------------------
(* The intermediate file.                                                  *)

NoFile == [exists |-> FALSE]

\* The members of one JSON object in the order the dict holds its keys.
KeyOrder == <<"page_number", "text", "vector_field">>

\* The code points of the characters of the texts: the space and "a" of the
\* page texts, the non-ASCII letter U+00E9, and the two characters U+00C3
\* and U+00A9 a single-byte decoding makes of it.
CodePoints ==
    (" " :> 32) @@ ("a" :> 97) @@ ("U+00E9" :> 233)
    @@ ("U+00C3" :> 195) @@ ("U+00A9" :> 169)

CharOf(cp) == CHOOSE c \in DOMAIN CodePoints : CodePoints[c] = cp

\* The UTF-8 bytes of one character: one byte below U+0080, two below U+0800.
Utf8Char(c) ==
    LET cp == CodePoints[c]
    IN  IF cp < 128 THEN <<cp>> ELSE <<192 + (cp \div 64), 128 + (cp % 64)>>

\* The bytes open(output_file, "w", encoding="utf-8") writes for a string that
\* json.dump passes on unescaped (ensure_ascii=False): line 128-129.
RECURSIVE Utf8Encode(_)
Utf8Encode(text) ==
    IF text = <<>> THEN <<>> ELSE Utf8Char(Head(text)) \o Utf8Encode(Tail(text))

RECURSIVE Utf8Decode(_)
Utf8Decode(bytes) ==
    IF bytes = <<>> THEN <<>>
    ELSE IF bytes[1] < 128
         THEN <<CharOf(bytes[1])>> \o Utf8Decode(Tail(bytes))
         ELSE <<CharOf((bytes[1] - 192) * 64 + (bytes[2] - 128))>>
              \o Utf8Decode(Tail(Tail(bytes)))

\* cp1252 maps every byte to one character; for the bytes below 128 and from
\* 160 on it is the character of that code point.
Cp1252Decode(bytes) == [i \in 1..Len(bytes) |-> CharOf(bytes[i])]

\* The encodings open(path, 'r') may use: without encoding= it is the
\* preferred encoding of the platform (line 104 of ingest_docs_with_embeddings.py).
PreferredEncodings == {"utf-8", "cp1252"}

Decode(bytes, encoding) ==
    IF encoding = "utf-8" THEN Utf8Decode(bytes) ELSE Cp1252Decode(bytes)

\* What the file holds for the value of a member: a string as its bytes, a
\* number or a list of numbers as written.
FileValue(key, value) == IF key = "text" THEN Utf8Encode(value) ELSE value

\* The value json.load makes of a member of a file decoded with an encoding.
LoadedValue(key, value, encoding) ==
    IF key = "text" THEN Decode(value, encoding) ELSE value

RECURSIVE Members(_, _)
Members(page, i) ==
    IF i > Len(KeyOrder) THEN <<>>
    ELSE IF KeyOrder[i] \in DOMAIN page
         THEN <<[key |-> KeyOrder[i],
                 value |-> Some(FileValue(KeyOrder[i], page[KeyOrder[i]]))]>>
              \o Members(page, i + 1)
         ELSE Members(page, i + 1)

\* json.dump(pages_with_embeddings, f, ...): lines 128-129.
JsonDump(pages) ==
    [exists |-> TRUE, array |-> [i \in 1..Len(pages) |-> Members(pages[i], 1)]]

\* One JSON object read back as a dict.
ObjectToDict(members, encoding) ==
    [k \in {members[i].key : i \in 1..Len(members)} |->
        LoadedValue(k, members[CHOOSE i \in 1..Len(members) : members[i].key = k].value.val,
                    encoding)]

\* json.load(f) on the file opened with an encoding: lines 104-105 of
\* ingest_docs_with_embeddings.py.
JsonLoad(f, encoding) ==
    PyList([i \in 1..Len(f.array) |-> ObjectToDict(f.array[i], encoding)])

-----------------------------------------------------------------------------
(* generate_embeddings.py: the operations.                                 *)

\* The fields every operation leaves in op.
Ran(name, input, requests, responses, result, value) ==
    [name |-> name, input |-> input, requests |-> requests,
     responses |-> responses, result |-> result, value |-> value]

NoOp == Ran("none", <<>>, <<>>, <<>>, "returned", <<>>)

\* extract_text_from_pdf(pdf_path) applied to the source document.
ExtractTextFromPdf ==
    /\ LET r == extract_text_from_pdf(pdf)
       IN  op' = Ran("extract_text_from_pdf", pdf, <<>>, <<>>, r.result, r.value)
    /\ UNCHANGED <<pdf, file, cluster, hist, pc, written>>

\* create_embeddings applied to the extracted pages, as main does at line 121.
CreateEmbeddings ==
    /\ pdf # Unopenable
    /\ LET pages == extract_text_from_pdf(pdf).value
       IN  \E model_id \in ModelIds :
           \E outcomes \in [1..Len(pages) -> EmbedOutcomes] :
               LET r == create_embeddings(pages, model_id, outcomes)
               IN  op' = Ran("create_embeddings",
                             [pages |-> pages, model_id |-> model_id],
                             r.requests, outcomes, r.result, r.value)
    /\ UNCHANGED <<pdf, file, cluster, hist, pc, written>>

\* The sample of lines 136-141: first_page['vector_field'] raises KeyError
\* when the first page has no vector.
SampleFirstPage(pages) ==
    IF pages # <<>> /\ "vector_field" \notin DOMAIN pages[1]
    THEN "raised" ELSE "returned"

\* main() of generate_embeddings.py: lines 98-143.
GenerateMain ==
    \/ \* boto3.client raises: lines 110-115
       /\ op' = Ran("generate_embeddings.main", pdf, <<>>, <<>>, "raised", "ClientError")
       /\ UNCHANGED <<pdf, file, cluster, hist, pc, written>>
    \/ \* the PDF cannot be opened: line 118, lines 35-40
       /\ pdf = Unopenable
       /\ op' = Ran("generate_embeddings.main", pdf, <<>>, <<>>, "raised", "OpenError")
       /\ UNCHANGED <<pdf, file, cluster, hist, pc, written>>
    \/ /\ pdf # Unopenable
       /\ LET pages == extract_text_from_pdf(pdf).value
          IN  \E outcomes \in [1..Len(pages) -> EmbedOutcomes] :
              LET r == create_embeddings(pages, EmbeddingModelId, outcomes)
              IN  \/ \* the file cannot be written: lines 131-133
                     /\ op' = Ran("generate_embeddings.main", pdf, r.requests,
                                  outcomes, "raised", "OSError")
                     /\ file' = file
                  \/ /\ file' = JsonDump(r.value)
                     /\ op' = Ran("generate_embeddings.main", pdf, r.requests,
                                  outcomes, SampleFirstPage(r.value),
                                  IF SampleFirstPage(r.value) = "raised"
                                  THEN "KeyError" ELSE "None")
       /\ UNCHANGED <<pdf, cluster, hist, pc, written>>

-----------------------------------------------------------------------------
(* The search cluster, as the scripts' requests see it.                    *)

\* The index names of the cluster: ".kibana", "rag" and "rag-test".
Kibana == <<".", "k", "i", "b", "a", "n", "a">>

Rag == <<"r", "a", "g">>

RagTest == <<"r", "a", "g", "-", "t", "e", "s", "t">>

IndexNames == {Kibana, Rag, RagTest}

NoIndex == [exists |-> FALSE]

\* The mapping the server derives for an index a write creates on the fly.
DynamicBody == [settings |-> "default", mappings |-> "dynamic"]

NewIndex(body) == [exists |-> TRUE, body |-> body, docs |-> <<>>]

\* The ids of the stored documents.
DocIds(docs) == {docs[i].id : i \in 1..Len(docs)}

\* The server stores one document: under a fresh id of its own when the
\* request names none, else under the given id, replacing the document that
\* has it. A write to an absent index creates the index.
ServerStore(index, request) ==
    LET idx == IF index.exists THEN index ELSE NewIndex(DynamicBody)
        docs == idx.docs
    IN  IF request.id = None
        THEN [idx EXCEPT !.docs = Append(docs,
                 [id |-> [auto |-> Len(docs) + 1], source |-> request.body])]
        ELSE LET id == [given |-> request.id.val]
             IN  IF id \in DocIds(docs)
                 THEN [idx EXCEPT !.docs =
                          [i \in 1..Len(docs) |->
                              IF docs[i].id = id
                              THEN [id |-> id, source |-> request.body]
                              ELSE docs[i]]]
                 ELSE [idx EXCEPT !.docs =
                          Append(docs, [id |-> id, source |-> request.body])]

\* client.index(...): the server stores the document and answers, or the
\* call raises and nothing is stored.
IndexOutcomes == {"created", "error"}

ServerIndex(index, request, outcome) ==
    IF outcome = "created" THEN ServerStore(index, request) ELSE index

\* client.indices.create(name, body): an existing name is refused; an absent
\* one is created, unless the call fails on the way.
CreateOutcomes == {"acknowledged", "error"}

ServerCreateResponse(index, outcome) ==
    IF index.exists THEN "resource_already_exists_exception"
    ELSE IF outcome = "acknowledged" THEN "acknowledged" ELSE "TransportError"

ServerCreate(index, body, outcome) ==
    IF ServerCreateResponse(index, outcome) = "acknowledged"
    THEN NewIndex(body) ELSE index

\* client.indices.delete(index=name): an absent name is an error; a present
\* index is removed and acknowledged, or the server answers without
\* acknowledging, or the call fails on the way.
DeleteOutcomes == {"acknowledged", "unacknowledged", "error"}

ServerDeleteResponse(index, outcome) ==
    IF ~index.exists THEN "index_not_found_exception"
    ELSE IF outcome = "error" THEN "TransportError" ELSE outcome

ServerDelete(index, outcome) ==
    IF ServerDeleteResponse(index, outcome) = "acknowledged" THEN NoIndex ELSE index

\* The names of the indices that exist.
Existing(cl) == {n \in IndexNames : cl[n].exists}

\* The orders in which a listing may name the indices of S.
Orders(S) ==
    {o \in [1..Cardinality(S) -> S] : \A i, j \in 1..Cardinality(S) : o[i] = o[j] => i = j}

\* The ingestion history of index "rag": runs since it was last empty, and
\* whether every one of them got through setup and had every write accepted.
FreshHist == [runs |-> 0, clean |-> TRUE]

-----------------------------------------------------------------------------
(* ingest_docs_with_embeddings.py                                          *)

\* A faulty variant of DocId: the page number is sent as the document id.
DocIdFromPageNumber(page) == Get(page, "page_number")

\* The id sent with the write: client.index is called with index and body
\* only (lines 65-68).
DocId(page) == None

\* A faulty variant of Document: the page number is stored with the page.
DocumentWithPageNumber(page) ==
    [text |-> Get(page, "text"), vector_field |-> Get(page, "vector_field"),
     page_number |-> Get(page, "page_number")]

\* The document built for one page: lines 60-63.
Document(page) ==
    [text |-> Get(page, "text"), vector_field |-> Get(page, "vector_field")]

\* A faulty variant of IndexRequest: every page is written under one id.
IndexRequestOneId(index_name, page) ==
    [index |-> index_name, body |-> Document(page), id |-> Some(1)]

\* The request of lines 65-68.
IndexRequest(index_name, page) ==
    [index |-> index_name, body |-> Document(page), id |-> DocId(page)]

\* A faulty variant of OnIndexError: a failed page is sent a second time.
OnIndexErrorRetry(st, index_name, page) ==
    [st EXCEPT !.requests = Append(@, IndexRequest(index_name, page)),
               !.index = ServerIndex(@, IndexRequest(index_name, page), "created")]

\* The except branch of lines 70-72: the error is logged, the loop goes on.
OnIndexError(st, index_name, page) == st

\* One iteration of the loop of lines 58-72 for page st.idx.
IngestStep(st, index_name, outcome) ==
    LET page == st.data[st.idx]
        request == IndexRequest(index_name, page)
        sent == [st EXCEPT !.requests = Append(@, request),
                           !.index = ServerIndex(@, request, outcome),
                           !.idx = @ + 1]
    IN  IF outcome = "created" THEN sent ELSE OnIndexError(sent, index_name, page)

RECURSIVE IngestLoop(_, _, _)
IngestLoop(st, index_name, outcomes) ==
    IF st.idx > Len(st.data) THEN st
    ELSE IngestLoop(IngestStep(st, index_name, outcomes[st.idx]), index_name, outcomes)

\* A faulty variant of IsList: any sequence of pages passes for a list.
IsListOrTuple(data) == data.type \in {"list", "tuple"}

\* isinstance(data, list): line 53.
IsList(data) == data.type = "list"

\* ingest_data(client, index_name, data): ValueError for data that is no
\* list (lines 53-56), else the loop; the server answers request i with
\* outcomes[i].
ingest_data(index, index_name, data, outcomes) ==
    IF ~IsList(data)
    THEN [result |-> "raised", value |-> "ValueError", requests |-> <<>>, index |-> index]
    ELSE LET st == IngestLoop([data |-> data.items, idx |-> 1, requests |-> <<>>,
                               index |-> index], index_name, outcomes)
         IN  [result |-> "returned", value |-> "None", requests |-> st.requests,
              index |-> st.index]

\* The runs so far, plus this one; clean only if this one was too.
Counted(h, thisClean) == [runs |-> h.runs + 1, clean |-> h.clean /\ thisClean]

AllCreated(outcomes) == \A i \in DOMAIN outcomes : outcomes[i] = "created"

\* ingest_data(client, "rag", data) on the data of the intermediate file.
IngestData ==
    /\ file.exists
    /\ hist.runs < MaxRuns
    /\ \E encoding \in PreferredEncodings :
       LET data == JsonLoad(file, encoding)
       IN  \E outcomes \in [1..Len(data.items) -> IndexOutcomes] :
           LET r == ingest_data(cluster[Rag], Rag, data, outcomes)
           IN  /\ cluster' = [cluster EXCEPT ![Rag] = r.index]
               /\ op' = Ran("ingest_data", data, r.requests, outcomes, r.result, r.value)
               /\ hist' = Counted(hist, AllCreated(outcomes))
    /\ UNCHANGED <<pdf, file, pc, written>>

\* main() of ingest_docs_with_embeddings.py: lines 74-119. Every exception
\* is caught and logged at lines 118-119.
IngestMain ==
    /\ hist.runs < MaxRuns
    /\ \/ \* the endpoint lookup, the secret lookup or the client raises: lines 88-101
          /\ op' = Ran("ingest.main", file, <<>>, <<>>, "returned", "error")
          /\ hist' = Counted(hist, FALSE)
          /\ UNCHANGED cluster
       \/ \* the file cannot be opened: lines 104-105
          /\ ~file.exists
          /\ op' = Ran("ingest.main", file, <<>>, <<>>, "returned", "error")
          /\ hist' = Counted(hist, FALSE)
          /\ UNCHANGED cluster
       \/ /\ file.exists
          /\ \E encoding \in PreferredEncodings :
             LET data == JsonLoad(file, encoding)
             IN  \E outcomes \in [1..Len(data.items) -> IndexOutcomes] :
                 LET r == ingest_data(cluster[Rag], Rag, data, outcomes)
                 IN  /\ cluster' = [cluster EXCEPT ![Rag] = r.index]
                     /\ op' = Ran("ingest.main", file, r.requests, outcomes, "returned",
                                  IF r.result = "returned" THEN "completed" ELSE "error")
                     /\ hist' = Counted(hist, AllCreated(outcomes))
    /\ UNCHANGED <<pdf, file, pc, written>>

-----------------------------------------------------------------------------
(* create_index.py                                                         *)

\* The hosts, user names and passwords create_index may be called with: those
\* of the script (lines 112-118) and those of the unit test.
Hosts == {"search-rag.eu-central-1.es.amazonaws.com", "test-host"}

Usernames == {"rag", "test-user"}

Passwords == {"master-password", "test-password"}

\* The client of lines 58-65: it holds the host and the credentials.
OpenSearchClient(host, username, password) ==
    [hosts |-> <<[host |-> host, port |-> 443]>>,
     http_auth |-> <<username, password>>,
     use_ssl |-> TRUE, verify_certs |-> TRUE, timeout |-> 30]

\* index_body: lines 68-89.
IndexBody ==
    [settings |->
        [index |-> [number_of_shards |-> 3, number_of_replicas |-> 2, knn |-> TRUE]
                   @@ ("knn.space_type" :> "cosinesimil")],
     mappings |->
        [properties |->
            [text |-> [type |-> "text", analyzer |-> "standard"],
             vector_field |-> [type |-> "knn_vector", dimension |-> 1536]]]]

\* A faulty variant of CreateRequest: the index name of the script is used,
\* whatever name was given.
CreateRequestForRag(client, index_name) ==
    [client |-> client, index |-> Rag, body |-> IndexBody]

\* client.indices.create(index_name, body=index_body): line 93.
CreateRequest(client, index_name) ==
    [client |-> client, index |-> index_name, body |-> IndexBody]

\* A faulty variant of OnCreateError: the error is logged and not raised again.
OnCreateErrorSwallowed(response) == [result |-> "returned", value |-> "None"]

\* The except branch of lines 95-97: the error is logged and raised again.
OnCreateError(response) == [result |-> "raised", value |-> response]

\* create_index(host, index_name, username, password): lines 39-97, called
\* when the index of that name is in state index.
create_index(index, host, index_name, username, password, outcome) ==
    LET request == CreateRequest(OpenSearchClient(host, username, password), index_name)
        response == ServerCreateResponse(index, outcome)
        r == IF response = "acknowledged"
             THEN [result |-> "returned", value |-> "None"]
             ELSE OnCreateError(response)
    IN  [result |-> r.result, value |-> r.value, requests |-> <<request>>,
         responses |-> <<response>>, index |-> ServerCreate(index, request.body, outcome)]

CreateIndex(index_name) ==
    /\ \E host \in Hosts : \E username \in Usernames : \E password \in Passwords :
       \E outcome \in CreateOutcomes :
        LET r == create_index(cluster[index_name], host, index_name, username,
                              password, outcome)
        IN  /\ cluster' = [cluster EXCEPT ![index_name] = r.index]
            /\ op' = Ran("create_index", index_name, r.requests, r.responses,
                         r.result, r.value)
            /\ hist' = IF index_name = Rag /\ r.result = "returned" THEN FreshHist ELSE hist
    /\ UNCHANGED <<pdf, file, pc, written>>

-----------------------------------------------------------------------------
(* delete_index.py                                                         *)

\* A faulty variant of OnDeleteError: the error is logged and raised again.
OnDeleteErrorRaised(response) == [result |-> "raised", value |-> response]

\* The except branch of lines 57-59: the error is logged, False is returned.
OnDeleteError(response) == [result |-> "returned", value |-> FALSE]

\* delete_opensearch_index(opensearch_client, index_name): lines 40-59.
delete_opensearch_index(index, index_name, outcome) ==
    LET response == ServerDeleteResponse(index, outcome)
        r == IF response \in {"acknowledged", "unacknowledged"}
             THEN [result |-> "returned", value |-> (response = "acknowledged")]
             ELSE OnDeleteError(response)
    IN  [result |-> r.result, value |-> r.value, requests |-> <<index_name>>,
         responses |-> <<response>>, index |-> ServerDelete(index, outcome)]

\* The history of "rag" once cluster cl is what an operation left.
HistAfter(cl) == IF cl[Rag].exists THEN hist ELSE FreshHist

DeleteOpensearchIndex(index_name) ==
    /\ \E outcome \in DeleteOutcomes :
        LET r == delete_opensearch_index(cluster[index_name], index_name, outcome)
            cl == [cluster EXCEPT ![index_name] = r.index]
        IN  /\ cluster' = cl
            /\ op' = Ran("delete_opensearch_index", index_name, r.requests,
                         r.responses, r.result, r.value)
            /\ hist' = HistAfter(cl)
    /\ UNCHANGED <<pdf, file, pc, written>>

\* A faulty variant of list_all_indices: a failed listing yields the index
\* of the application.
list_all_indices_or_rag(order, listed) == IF listed THEN order ELSE <<Rag>>

\* list_all_indices(opensearch_client): lines 61-77; the names in the order
\* the server gives them, or [] when the call raises.
list_all_indices(order, listed) == IF listed THEN order ELSE <<>>

\* The orders a listing of cluster cl may come in; none when the call raises.
Listings(cl, listed) == IF listed THEN Orders(Existing(cl)) ELSE {<<>>}

ListAllIndices ==
    /\ \E listed \in BOOLEAN : \E order \in Listings(cluster, listed) :
        op' = Ran("list_all_indices", <<>>, <<"get_alias">>, <<listed>>, "returned",
                  list_all_indices(order, listed))
    /\ UNCHANGED <<pdf, file, cluster, hist, pc, written>>

\* str.startswith(prefix).
StartsWith(s, prefix) ==
    Len(s) >= Len(prefix) /\ SubSeq(s, 1, Len(prefix)) = prefix

\* A faulty variant of IsSystemIndex: no index counts as a system index.
IsSystemIndexNever(index) == FALSE

\* index.startswith('.'): line 94.
IsSystemIndex(index) == StartsWith(index, <<".">>)

\* A faulty variant of AfterDelete: the first failed delete ends the loop.
AfterDeleteStopOnFailure(st, success) ==
    IF success THEN st ELSE [st EXCEPT !.idx = Len(st.indices) + 1]

\* Lines 98-99: a failure is logged as a warning, the loop goes on.
AfterDelete(st, success) == st

\* One iteration of the loop of lines 93-99 for name st.idx of the listing.
DeleteStep(st, outcomes) ==
    LET index == st.indices[st.idx]
        next == [st EXCEPT !.idx = @ + 1]
    IN  IF IsSystemIndex(index) THEN next
        ELSE LET r == delete_opensearch_index(st.cluster[index], index, outcomes[index])
                 done == [next EXCEPT !.cluster[index] = r.index,
                                      !.requests = @ \o r.requests,
                                      !.responses = @ \o r.responses,
                                      !.result = r.result]
             IN  IF r.result = "raised" THEN done ELSE AfterDelete(done, r.value)

RECURSIVE DeleteLoop(_, _)
DeleteLoop(st, outcomes) ==
    IF st.idx > Len(st.indices) \/ st.result = "raised" THEN st
    ELSE DeleteLoop(DeleteStep(st, outcomes), outcomes)

\* delete_all_indices(opensearch_client): lines 79-102. The listing of line
\* 101 is only logged.
delete_all_indices(cl, order, listed, outcomes) ==
    DeleteLoop([indices |-> list_all_indices(order, listed), idx |-> 1, cluster |-> cl,
                requests |-> <<>>, responses |-> <<>>, result |-> "returned"], outcomes)

\* The names in a list of names.
NamesIn(indices) == {indices[i] : i \in 1..Len(indices)}

\* delete_all_indices on the cluster; outcomes[n] is what the server does
\* with the delete of a listed name n, and op.listed tells whether the
\* listing of line 91 succeeded.
DeleteAllIndices ==
    /\ \E listed \in BOOLEAN : \E order \in Listings(cluster, listed) :
       \E outcomes \in [NamesIn(list_all_indices(order, listed)) -> DeleteOutcomes] :
        LET st == delete_all_indices(cluster, order, listed, outcomes)
        IN  /\ cluster' = st.cluster
            /\ op' = Ran("delete_all_indices", st.indices, st.requests, st.responses,
                         st.result, "None") @@ [listed |-> listed]
            /\ hist' = HistAfter(st.cluster)
    /\ UNCHANGED <<pdf, file, pc, written>>

-----------------------------------------------------------------------------
(* Text extraction on its own, over every document within the bounds.      *)

InitExtract ==
    /\ pdf \in PDFs \cup {Unopenable}
    /\ file = NoFile
    /\ cluster = <<>>
    /\ op = NoOp
    /\ hist = <<>>
    /\ pc = <<>>
    /\ written = <<>>

NextExtract == ExtractTextFromPdf

SpecExtract == InitExtract /\ [][NextExtract]_vars

-----------------------------------------------------------------------------
(* The embedding-generation script on its own.                             *)

\* The page texts of the documents the script is run on: an empty page and a
\* page whose text ends in whitespace.
SampleTexts == {<<>>, <<"a", " ">>}

SamplePDFs == {[pages |-> p] : p \in SeqsUpTo(SampleTexts, MaxPages)}

InitEmbed ==
    /\ pdf \in SamplePDFs \cup {Unopenable}
    /\ file = NoFile
    /\ cluster = <<>>
    /\ op = NoOp
    /\ hist = <<>>
    /\ pc = <<>>
    /\ written = <<>>

\* The two functions, applied to the document.
NextEmbed == ExtractTextFromPdf \/ CreateEmbeddings

SpecEmbed == InitEmbed /\ [][NextEmbed]_vars

\* The script, run again and again on the document.
NextGenerate == GenerateMain

SpecGenerate == InitEmbed /\ [][NextGenerate]_vars

-----------------------------------------------------------------------------
(* Ingestion, run repeatedly on one intermediate file against the index    *)
(* "rag", which the index scripts may delete and create again.             *)

\* The vector a model that embeds equal texts equally returns for a text.
Embedding(text) == IF text = <<>> THEN <<1, 2, 3>> ELSE <<4, 5, 6>>

\* The intermediate files generate_embeddings.main leaves for document d,
\* each embedding call failing or returning the embedding of the page text.
GeneratedFiles(d) ==
    LET pages == extract_text_from_pdf(d).value
    IN  {JsonDump(create_embeddings(pages, EmbeddingModelId, outcomes).value) :
            outcomes \in {o \in [1..Len(pages) -> EmbedOutcomes] :
                \A i \in 1..Len(pages) :
                    o[i].ok => o[i].vec = Embedding(pages[i].text)}}

\* The cluster after create_index.py has created "rag".
RagCreated == [n \in IndexNames |-> IF n = Rag THEN NewIndex(IndexBody) ELSE NoIndex]

InitIngest ==
    /\ \/ pdf = Unopenable /\ file = NoFile
       \/ pdf \in SamplePDFs /\ file \in GeneratedFiles(pdf)
    /\ cluster = RagCreated
    /\ op = NoOp
    /\ hist = FreshHist
    /\ pc = <<>>
    /\ written = <<>>

\* ingest_data called on the loaded file.
NextIngest ==
    \/ IngestData
    \/ CreateIndex(Rag)
    \/ DeleteOpensearchIndex(Rag)

SpecIngest == InitIngest /\ [][NextIngest]_vars

\* The ingestion script run as a whole.
NextPipeline ==
    \/ IngestMain
    \/ CreateIndex(Rag)
    \/ DeleteOpensearchIndex(Rag)

SpecPipeline == InitIngest /\ [][NextPipeline]_vars

-----------------------------------------------------------------------------
(* The index scripts on a cluster of any shape.                            *)

\* A document as ingestion stores it.
SampleDoc ==
    [id |-> [auto |-> 1],
     source |-> [text |-> Some(<<"a">>), vector_field |-> Some(<<1, 2, 3>>)]]

IndexStates ==
    {NoIndex, NewIndex(IndexBody), [NewIndex(IndexBody) EXCEPT !.docs = <<SampleDoc>>]}

InitIndex ==
    /\ pdf = Unopenable
    /\ file = NoFile
    /\ cluster \in [IndexNames -> IndexStates]
    /\ op = NoOp
    /\ hist = FreshHist
    /\ pc = <<>>
    /\ written = <<>>

NextIndex ==
    \/ \E index_name \in IndexNames : CreateIndex(index_name)
    \/ \E index_name \in IndexNames : DeleteOpensearchIndex(index_name)
    \/ ListAllIndices
    \/ DeleteAllIndices

SpecIndex == InitIndex /\ [][NextIndex]_vars

\* The number of responses, from the i-th on, that say the write was stored.
RECURSIVE CreatedCount(_, _)
CreatedCount(responses, i) ==
    IF i > Len(responses) THEN 0
    ELSE (IF responses[i] = "created" THEN 1 ELSE 0) + CreatedCount(responses, i + 1)

-----------------------------------------------------------------------------
(* Two ingestion processes on the same file and the same index: each       *)
(* client.index call is one request to the server, and the requests of the *)
(* two processes interleave freely.                                        *)

Procs == {1, 2}

\* Process p runs one iteration of the loop of lines 58-72.
IngestProcStep(p) ==
    /\ pc[p] <= Len(file.array)
    /\ \E outcome \in IndexOutcomes : \E encoding \in PreferredEncodings :
        LET st == IngestStep([data |-> JsonLoad(file, encoding).items, idx |-> pc[p],
                              requests |-> <<>>, index |-> cluster[Rag]], Rag, outcome)
        IN  /\ cluster' = [cluster EXCEPT ![Rag] = st.index]
            /\ pc' = [pc EXCEPT ![p] = st.idx]
            /\ written' = [written EXCEPT ![p] = @ + CreatedCount(<<outcome>>, 1)]
    /\ UNCHANGED <<pdf, file, op, hist>>

InitConcurrent ==
    /\ pdf \in SamplePDFs
    /\ file \in GeneratedFiles(pdf)
    /\ cluster = RagCreated
    /\ op = NoOp
    /\ hist = FreshHist
    /\ pc = [p \in Procs |-> 1]
    /\ written = [p \in Procs |-> 0]

NextConcurrent == \E p \in Procs : IngestProcStep(p)

SpecConcurrent == InitConcurrent /\ [][NextConcurrent]_vars

-----------------------------------------------------------------------------
(* Claims about generate_embeddings.py.                                    *)

\* t is s without its leading and trailing whitespace: s is some whitespace,
\* then t, then some whitespace, and t neither starts nor ends with whitespace.
IsTrimOf(t, s) ==
    \E i \in 0..Len(s) : \E j \in 0..(Len(s) - i) :
        /\ \A k \in 1..i : IsSpace(s[k])
        /\ \A k \in (Len(s) - j + 1)..Len(s) : IsSpace(s[k])
        /\ t = SubSeq(s, i + 1, Len(s) - j)
        /\ t # <<>> => ~IsSpace(t[1]) /\ ~IsSpace(t[Len(t)])

\* C1: for a PDF that opens and has N pages, extract_text_from_pdf returns
\* exactly N records; record i has page_number i and the whitespace-trimmed
\* text of page i, and nothing else.
C1_ExtractPagesInOrder ==
    (op.name = "extract_text_from_pdf" /\ pdf # Unopenable) =>
        /\ op.result = "returned"
        /\ Len(op.value) = Len(pdf.pages)
        /\ \A i \in 1..Len(pdf.pages) :
            /\ DOMAIN op.value[i] = {"page_number", "text"}
            /\ op.value[i].page_number = i
            /\ IsTrimOf(op.value[i].text, pdf.pages[i])

\* C1 witness: a two-page PDF was extracted, and a page with whitespace on
\* both ends of the document came out trimmed.
C1_Witness ==
    /\ op.name = "extract_text_from_pdf"
    /\ pdf # Unopenable
    /\ Len(pdf.pages) = 2
    /\ pdf.pages[1] = <<"a", " ">>
    /\ pdf.pages[2] = <<" ", "a">>
    /\ op.value[1] = [page_number |-> 1, text |-> <<"a">>]
    /\ op.value[2] = [page_number |-> 2, text |-> <<"a">>]

\* Every embedding call of the last create_embeddings succeeded.
AllEmbedded == \A i \in 1..Len(op.responses) : op.responses[i].ok

\* Request i of the last create_embeddings is the one call for page i.
OneCallPerPage ==
    /\ Len(op.requests) = Len(op.input.pages)
    /\ \A i \in 1..Len(op.input.pages) :
        op.requests[i] = [modelId |-> op.input.model_id,
                          inputText |-> op.input.pages[i].text]

\* C2: when every embedding call succeeds, create_embeddings returns a list
\* as long as its input, page i carries the vector the model returned for
\* page i, and the model is called once per page with the given model id.
C2_EmbeddingsStored ==
    (op.name = "create_embeddings" /\ AllEmbedded) =>
        /\ op.result = "returned"
        /\ Len(op.value) = Len(op.input.pages)
        /\ \A i \in 1..Len(op.input.pages) :
            /\ DOMAIN op.value[i] = {"page_number", "text", "vector_field"}
            /\ op.value[i].vector_field = op.responses[i].vec
            /\ op.value[i].page_number = op.input.pages[i].page_number
            /\ op.value[i].text = op.input.pages[i].text
        /\ OneCallPerPage

\* C2 witness: two pages with different texts got two different vectors.
C2_Witness ==
    /\ op.name = "create_embeddings"
    /\ AllEmbedded
    /\ Len(op.input.pages) = 2
    /\ op.input.pages[1].text # op.input.pages[2].text
    /\ op.value[1].vector_field = <<1, 2, 3>>
    /\ op.value[2].vector_field = <<4, 5, 6>>
    /\ op.input.model_id = EmbeddingModelId

-----------------------------------------------------------------------------
(* Claims about ingest_docs_with_embeddings.py.                            *)

\* The documents of an index; an absent index holds none.
DocsOf(index) == IF index.exists THEN index.docs ELSE <<>>

IsPrefix(s, t) == Len(s) <= Len(t) /\ SubSeq(t, 1, Len(s)) = s

Ingested(o) == o.name \in {"ingest_data", "ingest.main"}

\* C4: a record with no vector_field is excluded from ingestion: no index
\* request is issued for it, so no request carries an absent vector.
C4_FailedPagesExcluded ==
    Ingested(op) =>
        \A i \in 1..Len(op.requests) : op.requests[i].body.vector_field # None

\* C5: for any list of pages and any pattern of index failures, ingest_data
\* issues exactly one index request per page, in list order, retries none,
\* returns without raising, and removes no document: the index afterwards
\* is the index before plus one document per accepted request.
C5_OneRequestPerPage ==
    /\ [](op.name = "ingest_data" =>
            /\ op.result = "returned"
            /\ Len(op.requests) = Len(op.input.items)
            /\ \A i \in 1..Len(op.input.items) :
                /\ op.requests[i].index = Rag
                /\ op.requests[i].body.text = Get(op.input.items[i], "text")
                /\ op.requests[i].body.vector_field
                       = Get(op.input.items[i], "vector_field"))
    /\ [][op'.name = "ingest_data" =>
            /\ IsPrefix(DocsOf(cluster[Rag]), DocsOf(cluster'[Rag]))
            /\ Len(DocsOf(cluster'[Rag]))
                   = Len(DocsOf(cluster[Rag])) + CreatedCount(op'.responses, 1)]_vars

\* C5 witness: of two pages the first write failed, the second was still
\* sent and stored after a document of an earlier run.
C5_Witness ==
    /\ op.name = "ingest_data"
    /\ Len(op.input.items) = 2
    /\ op.responses = <<"error", "created">>
    /\ Len(op.requests) = 2
    /\ Len(DocsOf(cluster[Rag])) = 3
    /\ cluster[Rag].docs[3].source = op.requests[2].body

\* C6: ingestion is not idempotent: as long as every run since the index was
\* last empty had every write accepted, the index holds runs * N documents
\* for the N-page file (N after the first run, 2N after the second), and
\* no write carries a document id.
C6_ReingestDoubles ==
    /\ (hist.clean /\ file.exists) =>
            Len(DocsOf(cluster[Rag])) = hist.runs * Len(file.array)
    /\ Ingested(op) => \A i \in 1..Len(op.requests) : op.requests[i].id = None

\* C6 witness: the second clean run over a two-page file left four documents.
C6_Witness ==
    /\ op.name = "ingest.main"
    /\ hist.clean
    /\ hist.runs = 2
    /\ Len(file.array) = 2
    /\ Len(DocsOf(cluster[Rag])) = 4
    /\ cluster[Rag].docs[3].source = cluster[Rag].docs[1].source
    /\ cluster[Rag].docs[4].source = cluster[Rag].docs[2].source

\* The number of times d occurs in sequence q.
Count(d, q) == Cardinality({i \in 1..Len(q) : q[i] = d})

\* The bodies of the stored documents of "rag", in order.
Sources == [i \in 1..Len(DocsOf(cluster[Rag])) |-> DocsOf(cluster[Rag])[i].source]

\* The documents of the pages of the intermediate file, in order.
FileDocs ==
    [i \in 1..Len(JsonLoad(file, "utf-8").items) |->
        [text |-> Get(JsonLoad(file, "utf-8").items[i], "text"),
         vector_field |-> Get(JsonLoad(file, "utf-8").items[i], "vector_field")]]

BothDone == \A p \in Procs : pc[p] = Len(file.array) + 1

\* C7: two concurrent ingestion runs exclude nothing of each other: under
\* every interleaving the index holds as many documents as both runs had
\* writes accepted, and when both runs end with every write accepted each
\* page is stored once per run, twice in all.
C7_ConcurrentRunsDuplicate ==
    /\ Len(DocsOf(cluster[Rag])) = written[1] + written[2]
    /\ (BothDone /\ \A p \in Procs : written[p] = Len(FileDocs)) =>
            \A i \in 1..Len(FileDocs) :
                Count(FileDocs[i], Sources) = 2 * Count(FileDocs[i], FileDocs)

\* C7 witness: both runs ended after interleaving page by page: the two
\* copies of page 1 are followed by the two copies of page 2.
C7_Witness ==
    /\ BothDone
    /\ Len(FileDocs) = 2
    /\ FileDocs[1] # FileDocs[2]
    /\ Sources = <<FileDocs[1], FileDocs[1], FileDocs[2], FileDocs[2]>>
    /\ written = [p \in Procs |-> 2]

-----------------------------------------------------------------------------
(* Claims about delete_index.py and create_index.py.                       *)

\* C8: delete_all_indices never issues a delete for a name starting with
\* '.', issues exactly one delete for every other listed name whatever the
\* earlier deletes did, issues no other delete, and returns without raising.
C8_DeleteAllSkipsSystem ==
    op.name = "delete_all_indices" =>
        /\ op.result = "returned"
        /\ \A i \in 1..Len(op.requests) :
            /\ Head(op.requests[i]) # "."
            /\ \E j \in 1..Len(op.input) : op.input[j] = op.requests[i]
        /\ \A j \in 1..Len(op.input) :
            Head(op.input[j]) # "." =>
                Cardinality({i \in 1..Len(op.requests) : op.requests[i] = op.input[j]}) = 1

\* C8 witness: all three indices were listed, the first delete failed, the
\* second was still attempted, and ".kibana" was left alone.
C8_Witness ==
    /\ op.name = "delete_all_indices"
    /\ Len(op.input) = 3
    /\ Len(op.requests) = 2
    /\ op.responses[1] = "TransportError"
    /\ op.responses[2] = "acknowledged"
    /\ cluster[Kibana].exists

\* C9: delete_opensearch_index never raises: it returns the server's
\* acknowledged value when the delete call returns, and False when the call
\* raises, as for an index that does not exist.
C9_DeleteReturnsBool ==
    op.name = "delete_opensearch_index" =>
        /\ op.result = "returned"
        /\ op.responses[1] = "acknowledged" => op.value = TRUE
        /\ op.responses[1] # "acknowledged" => op.value = FALSE

\* C9 witness: the delete of an absent index returned False.
C9_Witness ==
    /\ op.name = "delete_opensearch_index"
    /\ op.responses[1] = "index_not_found_exception"
    /\ ~cluster[op.input].exists
    /\ op.result = "returned"
    /\ op.value = FALSE

\* C10: create_index for a name that exists raises and leaves the cluster
\* as it was (schema and documents); a create_index that returns was given
\* an absent name and leaves the index with the declared body and no
\* document.
C10_CreateNotIdempotent ==
    [][op'.name = "create_index" =>
        /\ cluster[op'.input].exists =>
            (op'.result = "raised" /\ cluster' = cluster)
        /\ op'.result = "returned" =>
            /\ ~cluster[op'.input].exists
            /\ cluster'[op'.input] = [exists |-> TRUE, body |-> IndexBody, docs |-> <<>>]
        /\ \A n \in IndexNames \ {op'.input} : cluster'[n] = cluster[n]]_vars

\* C10 witness: create_index was refused for an index that holds a document,
\* and the document is still there.
C10_Witness ==
    /\ op.name = "create_index"
    /\ op.result = "raised"
    /\ op.value = "resource_already_exists_exception"
    /\ cluster[op.input].exists
    /\ cluster[op.input].docs = <<SampleDoc>>

\* C11: every call of create_index issues exactly one create request, for
\* the index name it was given, whose body declares 3 shards, 2 replicas,
\* k-NN enabled with cosine similarity, a full-text field "text" and a field
\* "vector_field" of type knn_vector and dimension 1536, whatever the host,
\* the user name and the password are.
C11_CreateRequestFixed ==
    op.name = "create_index" =>
        /\ Len(op.requests) = 1
        /\ op.requests[1].index = op.input
        /\ LET index == op.requests[1].body.settings.index
               properties == op.requests[1].body.mappings.properties
           IN  /\ index.number_of_shards = 3
               /\ index.number_of_replicas = 2
               /\ index.knn = TRUE
               /\ index["knn.space_type"] = "cosinesimil"
               /\ DOMAIN properties = {"text", "vector_field"}
               /\ properties.text.type = "text"
               /\ properties.vector_field.type = "knn_vector"
               /\ properties.vector_field.dimension = 1536

\* C11 witness: create_index was called for "rag-test" with the host and
\* credentials of the unit test, none of which equals the index name, and the
\* one request names "rag-test".
C11_Witness ==
    /\ op.name = "create_index"
    /\ op.input = RagTest
    /\ op.requests[1].client.hosts[1].host = "test-host"
    /\ op.requests[1].client.http_auth = <<"test-user", "test-password">>
    /\ op.requests[1].index = RagTest
    /\ op.requests[1].body.mappings.properties.vector_field.dimension = 1536

-----------------------------------------------------------------------------
(* retrieve_endpoint.py                                                    *)

\* The domain names and regions the functions are called with.
DomainNames == {"rag", "rag-non-existent"}

Regions == {"eu-central-1", "us-west-2"}

\* The endpoint strings a domain description may hold; "" is the empty one.
Endpoints == {"search-rag-abcdef123456.eu-central-1.es.amazonaws.com", ""}

\* What describe_elasticsearch_domain does: it returns a response whose
\* DomainStatus holds an Endpoint, or holds none, or a response without a
\* DomainStatus, or it raises a ClientError or another exception.
DescribeOutcomes ==
    {[kind |-> "response", response |-> [DomainStatus |-> [Endpoint |-> e]]] :
        e \in Endpoints}
    \cup {[kind |-> "response", response |-> [DomainStatus |-> [Processing |-> TRUE]]],
          [kind |-> "response", response |-> [ResponseMetadata |-> TRUE]],
          [kind |-> "ClientError"],
          [kind |-> "Exception"]}

\* The service call that is never made when the client could not be created.
NotCalled == [kind |-> "not called"]

\* The outcomes of the service call, given whether boto3.client returned.
DescribeOutcomesOf(created) == IF created THEN DescribeOutcomes ELSE {NotCalled}

\* An operation record with the lines the operation printed or logged.
Logged(ran, log) == ran @@ [log |-> log]

\* print(...): one line on stdout, or on stderr with file=sys.stderr.
Out(text, arg) == [stream |-> "stdout", text |-> text, arg |-> arg]

Err(text, arg) == [stream |-> "stderr", text |-> text, arg |-> arg]

\* bool(endpoint) for the value dict.get returned: None and "" are false.
Truthy(endpoint) == endpoint # None /\ endpoint.val # ""

\* The request of line 29, through the client of line 26.
DescribeRequest(domain_name, region) ==
    [service |-> "es", region_name |-> region, DomainName |-> domain_name]

\* get_opensearch_endpoint(domain_name, region): lines 9-44. The client of
\* line 26 is created outside the try statement: when boto3.client raises,
\* the function raises. After either except branch the function falls off
\* its end and returns None.
get_opensearch_endpoint(domain_name, region, created, describe) ==
    LET attempt == Out("Attempting to describe OpenSearch domain: ", domain_name)
        request == DescribeRequest(domain_name, region)
        ret(value, log) == [result |-> "returned", value |-> value,
                            requests |-> <<request>>, log |-> <<attempt>> \o log]
    IN  IF ~created
        THEN [result |-> "raised", value |-> [raised |-> "Exception"],
              requests |-> <<>>, log |-> <<>>]
        ELSE IF describe.kind = "ClientError"
        THEN ret(None, <<Err("ClientError: ", "e")>>)
        ELSE IF describe.kind = "Exception"
        THEN ret(None, <<Err("An error occurred during script execution: ", "e")>>)
        ELSE LET retrieved == Out("Domain description retrieved successfully", "")
             IN  IF "DomainStatus" \notin DOMAIN describe.response
                 THEN ret(None, <<retrieved,
                          Err("An error occurred during script execution: ", "e")>>)
                 ELSE LET endpoint == Get(describe.response.DomainStatus, "Endpoint")
                      IN  IF Truthy(endpoint)
                          THEN ret(endpoint, <<retrieved, Out("Endpoint: ", endpoint.val)>>)
                          ELSE ret(None, <<retrieved,
                                   Err("No endpoint found for the domain.", "")>>)

GetOpensearchEndpoint ==
    /\ \E domain_name \in DomainNames : \E region \in Regions :
       \E created \in BOOLEAN : \E describe \in DescribeOutcomesOf(created) :
        LET r == get_opensearch_endpoint(domain_name, region, created, describe)
        IN  op' = Logged(Ran("get_opensearch_endpoint",
                             [domain_name |-> domain_name, region |-> region],
                             r.requests,
                             [created |-> created, describe |-> describe],
                             r.result, r.value), r.log)
    /\ UNCHANGED <<pdf, file, cluster, hist, pc, written>>

\* A faulty variant of OnEndpointError: the exception leaves main.
OnEndpointErrorRaise(r) ==
    [result |-> "raised", value |-> r.value, requests |-> r.requests, log |-> r.log]

\* The except branch of lines 66-68: the error is printed, False is returned.
OnEndpointError(r) ==
    [result |-> "returned", value |-> FALSE, requests |-> r.requests,
     log |-> r.log \o <<Err("An error occurred during script execution: ", "e")>>]

\* main(domain_name, region_name) of retrieve_endpoint.py: lines 46-68.
retrieve_endpoint_main(domain_name, region_name, created, describe) ==
    LET r == get_opensearch_endpoint(domain_name, region_name, created, describe)
    IN  IF r.result = "raised" THEN OnEndpointError(r)
        ELSE IF Truthy(r.value)
        THEN [result |-> "returned", value |-> TRUE, requests |-> r.requests,
              log |-> r.log \o <<Out("Script executed successfully", "")>>]
        ELSE [result |-> "returned", value |-> FALSE, requests |-> r.requests,
              log |-> r.log \o <<Err("No endpoint returned.", "")>>]

RetrieveEndpointMain ==
    /\ \E domain_name \in DomainNames : \E region_name \in Regions :
       \E created \in BOOLEAN : \E describe \in DescribeOutcomesOf(created) :
        LET r == retrieve_endpoint_main(domain_name, region_name, created, describe)
        IN  op' = Logged(Ran("retrieve_endpoint.main",
                             [domain_name |-> domain_name, region |-> region_name],
                             r.requests,
                             [created |-> created, describe |-> describe],
                             r.result, r.value), r.log)
    /\ UNCHANGED <<pdf, file, cluster, hist, pc, written>>

-----------------------------------------------------------------------------
(* retrieve_secret.py: get_secret_name                                     *)

\* The secret names of a region: "rag", "xrag", "ra" and "arg".
SecretNames == {Rag, <<"x">> \o Rag, <<"r", "a">>, <<"a", "r", "g">>}

\* The patterns get_secret_name is called with: "rag", "ra" and "".
DomainPatterns == {Rag, <<"r", "a">>, <<>>}

\* What list_secrets does: it returns a response with a SecretList, or it
\* raises a ClientError or another exception.
ListOutcomes ==
    {[kind |-> "response", SecretList |-> [i \in 1..Len(names) |-> [Name |-> names[i]]]] :
        names \in SeqsUpTo(SecretNames, MaxSecrets)}
    \cup {[kind |-> "ClientError"], [kind |-> "Exception"]}

\* A line of the loguru logger.
Log(level, text, arg) == [level |-> level, text |-> text, arg |-> arg]

\* A faulty variant of Contains: the pattern must be at the start of the name.
ContainsAsPrefix(name, pattern) == StartsWith(name, pattern)

\* pattern in name: the pattern starts at some position of the name.
RECURSIVE Contains(_, _)
Contains(name, pattern) ==
    IF Len(name) < Len(pattern) THEN FALSE
    ELSE IF StartsWith(name, pattern) THEN TRUE
    ELSE Contains(Tail(name), pattern)

\* The loop of lines 42-48 from secret i on: the first name that contains
\* the pattern is returned, None when the list is exhausted.
RECURSIVE FindSecret(_, _, _)
FindSecret(secrets, secret_pattern, i) ==
    IF i > Len(secrets)
    THEN [value |-> None,
          log |-> <<Log("WARNING", "No secret found matching pattern: ", secret_pattern)>>]
    ELSE IF Contains(secrets[i].Name, secret_pattern)
    THEN [value |-> Some(secrets[i].Name),
          log |-> <<Log("INFO", "Found matching secret: ", secrets[i].Name)>>]
    ELSE FindSecret(secrets, secret_pattern, i + 1)

\* The request of line 36, through the client of line 33.
ListRequest(region_name) ==
    [service |-> "secretsmanager", region_name |-> region_name, call |-> "list_secrets"]

\* get_secret_name(region_name, domain_name): lines 15-51. A ClientError is
\* logged and raised again; any other exception propagates as it is.
get_secret_name(region_name, domain_name, created, list) ==
    LET attempt == Log("INFO", "Attempting to list secrets in region ", <<region_name>>)
        request == ListRequest(region_name)
    IN  IF ~created
        THEN [result |-> "raised", value |-> [raised |-> "Exception"],
              requests |-> <<>>, log |-> <<>>]
        ELSE IF list.kind = "ClientError"
        THEN [result |-> "raised", value |-> [raised |-> "ClientError"],
              requests |-> <<request>>,
              log |-> <<attempt,
                        Log("ERROR", "An error occurred while listing secrets: ", <<"e">>)>>]
        ELSE IF list.kind = "Exception"
        THEN [result |-> "raised", value |-> [raised |-> "Exception"],
              requests |-> <<request>>, log |-> <<attempt>>]
        ELSE LET found == FindSecret(list.SecretList, domain_name, 1)
             IN  [result |-> "returned", value |-> found.value,
                  requests |-> <<request>>, log |-> <<attempt>> \o found.log]

\* The outcomes of list_secrets, given whether boto3.client returned.
ListOutcomesOf(created) == IF created THEN ListOutcomes ELSE {NotCalled}

GetSecretName ==
    /\ \E region_name \in Regions : \E domain_name \in DomainPatterns :
       \E created \in BOOLEAN : \E list \in ListOutcomesOf(created) :
        LET r == get_secret_name(region_name, domain_name, created, list)
        IN  op' = Logged(Ran("get_secret_name",
                             [region_name |-> region_name, domain_name |-> domain_name],
                             r.requests, [created |-> created, list |-> list],
                             r.result, r.value), r.log)
    /\ UNCHANGED <<pdf, file, cluster, hist, pc, written>>

-----------------------------------------------------------------------------
(* The two resolvers, called with any arguments against any service answer. *)

InitResolve ==
    /\ pdf = Unopenable
    /\ file = NoFile
    /\ cluster = <<>>
    /\ op = NoOp
    /\ hist = <<>>
    /\ pc = <<>>
    /\ written = <<>>

NextResolve ==
    \/ GetOpensearchEndpoint
    \/ RetrieveEndpointMain
    \/ GetSecretName

SpecResolve == InitResolve /\ [][NextResolve]_vars

\* The domain description of the last lookup holds a non-empty Endpoint.
HasEndpoint ==
    /\ op.responses.describe.kind = "response"
    /\ "DomainStatus" \in DOMAIN op.responses.describe.response
    /\ "Endpoint" \in DOMAIN op.responses.describe.response.DomainStatus
    /\ op.responses.describe.response.DomainStatus.Endpoint # ""

\* C12: get_opensearch_endpoint never raises: it returns the endpoint string
\* when the domain description holds a non-empty Endpoint, and None when the
\* Endpoint is absent or empty and when the service call raises.
C12_EndpointNeverRaises ==
    op.name = "get_opensearch_endpoint" =>
        /\ op.result = "returned"
        /\ HasEndpoint =>
            op.value = Some(op.responses.describe.response.DomainStatus.Endpoint)
        /\ ~HasEndpoint => op.value = None

\* C13: retrieve_endpoint.main never raises and returns True exactly when the
\* lookup yielded a non-empty endpoint: the client was created and the
\* domain description holds a non-empty Endpoint.
C13_MainReturnsBool ==
    op.name = "retrieve_endpoint.main" =>
        /\ op.result = "returned"
        /\ op.value = (op.responses.created /\ HasEndpoint)

\* C13 witness: the client could not be created, the lookup raised, and
\* main returned False after printing the error.
C13_Witness ==
    /\ op.name = "retrieve_endpoint.main"
    /\ ~op.responses.created
    /\ op.requests = <<>>
    /\ op.result = "returned"
    /\ op.value = FALSE
    /\ op.log = <<Err("An error occurred during script execution: ", "e")>>

\* pattern occurs in name as a contiguous run of characters.
IsSubstring(pattern, name) ==
    \E i \in 0..(Len(name) - Len(pattern)) : SubSeq(name, i + 1, i + Len(pattern)) = pattern

\* The names of the last listing, in listing order.
Listed == [i \in 1..Len(op.responses.list.SecretList) |-> op.responses.list.SecretList[i].Name]

\* The positions of the listed names that contain the pattern.
Matches == {i \in 1..Len(Listed) : IsSubstring(op.input.domain_name, Listed[i])}

\* C14: get_secret_name returns the first name, in listing order, that
\* contains the pattern as a substring, returns None exactly when no listed
\* name contains it, and raises the ClientError of a failed listing again.
C14_FirstMatchingSecret ==
    op.name = "get_secret_name" =>
        /\ op.responses.list.kind = "response" =>
            /\ op.result = "returned"
            /\ Matches = {} => op.value = None
            /\ Matches # {} =>
                \E i \in Matches :
                    /\ \A j \in Matches : i <= j
                    /\ op.value = Some(Listed[i])
        /\ op.responses.list.kind = "ClientError" =>
            (op.result = "raised" /\ op.value = [raised |-> "ClientError"])

\* C14 witness: of the secrets "arg" and "xrag" the second is returned for
\* the pattern "rag", which it holds in its middle.
C14_Witness ==
    /\ op.name = "get_secret_name"
    /\ op.input.domain_name = Rag
    /\ op.responses.list.kind = "response"
    /\ Listed = <<<<"a", "r", "g">>, <<"x", "r", "a", "g">>>>
    /\ op.value = Some(<<"x", "r", "a", "g">>)

-----------------------------------------------------------------------------
(* retrieve_secret.py: get_secret                                          *)

\* The characters of a secret value: a letter and a digit.
ValueChars == {"a", "1"}

SecretValues == SeqsUpTo(ValueChars, MaxSecretLen)

\* The digit strings among the values: the decimal numerals.
Numerals == {d \in SecretValues : d # <<>> /\ \A i \in 1..Len(d) : d[i] = "1"}

\* The keys of a secret that is a JSON object: "username" and "password".
Username == <<"u", "s", "e", "r", "n", "a", "m", "e">>

Password == <<"p", "a", "s", "s", "w", "o", "r", "d">>

\* JSON values: a string, a number, an object (a sequence of members).
JStr(chars) == [json |-> "string", text |-> chars]

JNum(digits) == [json |-> "number", text |-> digits]

JObj(members) == [json |-> "object", members |-> members]

Scalars == {JStr(c) : c \in SecretValues} \cup {JNum(d) : d \in Numerals}

Objects ==
    {JObj(<<[key |-> Password, value |-> v]>>) : v \in Scalars}
    \cup {JObj(<<[key |-> Username, value |-> u], [key |-> Password, value |-> v]>>) :
            u \in Scalars, v \in Scalars}

\* The text of a JSON string or number.
ScalarText(v) ==
    IF v.json = "string" THEN <<"\"">> \o v.text \o <<"\"">> ELSE v.text

\* The text of the members of an object from member i on.
RECURSIVE MembersText(_, _)
MembersText(members, i) ==
    IF i > Len(members) THEN <<>>
    ELSE (IF i > 1 THEN <<",", " ">> ELSE <<>>)
         \o <<"\"">> \o members[i].key \o <<"\"", ":", " ">>
         \o ScalarText(members[i].value)
         \o MembersText(members, i + 1)

\* The text of a JSON value.
JsonText(v) ==
    IF v.json = "object" THEN <<"{">> \o MembersText(v.members, 1) \o <<"}">>
    ELSE ScalarText(v)

\* The secrets of the store: a raw string, or the text of a JSON object.
RawSecrets == SecretValues \ {<<>>}

SecretStrings == RawSecrets \cup {JsonText(o) : o \in Objects}

\* json.loads, for the JSON texts made of numerals, strings without escapes
\* and objects whose members are such numerals and strings.
IsDigit(c) == c \in {"0", "1", "2", "3", "4", "5", "6", "7", "8", "9"}

JsonFail == [ok |-> FALSE]

JsonAt(value, next) == [ok |-> TRUE, value |-> value, next |-> next]

\* The first position from i on that holds no blank.
RECURSIVE SkipBlanks(_, _)
SkipBlanks(t, i) ==
    IF i <= Len(t) /\ t[i] = " " THEN SkipBlanks(t, i + 1) ELSE i

\* The first position from i on that holds no digit.
RECURSIVE SkipDigits(_, _)
SkipDigits(t, i) ==
    IF i <= Len(t) /\ IsDigit(t[i]) THEN SkipDigits(t, i + 1) ELSE i

\* The position of the first quote from i on; past the end when there is none.
RECURSIVE FindQuote(_, _)
FindQuote(t, i) ==
    IF i > Len(t) \/ t[i] = "\"" THEN i ELSE FindQuote(t, i + 1)

\* A numeral at position i: digits, with no leading zero.
ParseNumber(t, i) ==
    LET j == SkipDigits(t, i)
    IN  IF j = i \/ (t[i] = "0" /\ j > i + 1) THEN JsonFail
        ELSE JsonAt(JNum(SubSeq(t, i, j - 1)), j)

\* A string at position i: a quote, characters, a quote.
ParseString(t, i) ==
    IF i > Len(t) \/ t[i] # "\"" THEN JsonFail
    ELSE LET k == FindQuote(t, i + 1)
         IN  IF k > Len(t) THEN JsonFail
             ELSE JsonAt(JStr(SubSeq(t, i + 1, k - 1)), k + 1)

ParseScalar(t, i) ==
    IF i <= Len(t) /\ t[i] = "\"" THEN ParseString(t, i) ELSE ParseNumber(t, i)

\* The members of an object from position i on, after the members acc.
RECURSIVE ParseMembers(_, _, _)

\* After a member: the closing brace ends the object, a comma goes on.
MemberEnd(t, after, members) ==
    IF after > Len(t) THEN JsonFail
    ELSE IF t[after] = "}" THEN JsonAt(JObj(members), after + 1)
    ELSE IF t[after] = "," THEN ParseMembers(t, after + 1, members)
    ELSE JsonFail

\* The value of the member with the given key.
MemberValue(t, acc, key, value) ==
    IF ~value.ok THEN JsonFail
    ELSE MemberEnd(t, SkipBlanks(t, value.next),
                   Append(acc, [key |-> key, value |-> value.value]))

\* The colon between key and value.
MemberColon(t, acc, key, colon) ==
    IF colon > Len(t) \/ t[colon] # ":" THEN JsonFail
    ELSE MemberValue(t, acc, key, ParseScalar(t, SkipBlanks(t, colon + 1)))

\* The key of a member: a string.
MemberKey(t, acc, key) ==
    IF ~key.ok THEN JsonFail
    ELSE MemberColon(t, acc, key.value.text, SkipBlanks(t, key.next))

ParseMembers(t, i, acc) == MemberKey(t, acc, ParseString(t, SkipBlanks(t, i)))

\* An object whose first token after the brace is at position j.
ParseObject(t, j) ==
    IF j <= Len(t) /\ t[j] = "}" THEN JsonAt(JObj(<<>>), j + 1)
    ELSE ParseMembers(t, j, <<>>)

\* The value whose first token is at position i.
ParseValue(t, i) ==
    IF i > Len(t) THEN JsonFail
    ELSE IF t[i] = "{" THEN ParseObject(t, SkipBlanks(t, i + 1))
    ELSE ParseScalar(t, i)

\* The text is one value: nothing but blanks follows it.
WholeText(t, parsed) ==
    IF parsed.ok /\ SkipBlanks(t, parsed.next) > Len(t)
    THEN [ok |-> TRUE, value |-> parsed.value]
    ELSE JsonFail

\* json.loads(secret): the JSON value the whole text denotes, or
\* JSONDecodeError when it denotes none or more text follows the value.
JsonLoads(secret) == WholeText(secret, ParseValue(secret, SkipBlanks(secret, 1)))

\* '*' * n
Mask(n) == [i \in 1..n |-> "*"]

\* The loop of lines 96-97 from member i on: a value is masked by its
\* length; len() of a number raises TypeError.
RECURSIVE MaskMembers(_, _)
MaskMembers(members, i) ==
    IF i > Len(members) THEN [result |-> "returned", log |-> <<>>]
    ELSE IF members[i].value.json # "string"
    THEN [result |-> "TypeError", log |-> <<>>]
    ELSE LET rest == MaskMembers(members, i + 1)
         IN  [result |-> rest.result,
              log |-> <<Log("INFO", "  key: mask",
                            members[i].key \o <<":", " ">>
                            \o Mask(Len(members[i].value.text)))>> \o rest.log]

\* Lines 96-97 on the parsed secret: a value that is no object has no
\* items() and raises AttributeError.
LogItems(retrieved, parsed, masked) ==
    IF parsed.json # "object"
    THEN [result |-> "AttributeError", log |-> <<retrieved>>]
    ELSE [result |-> masked.result,
          log |-> <<retrieved, Log("INFO", "Secret contents (key-value pairs):", <<>>)>>
                  \o masked.log]

\* Lines 93-100 on the outcome of json.loads: only JSONDecodeError is caught.
LogParsed(secret, retrieved, parsed) ==
    IF ~parsed.ok
    THEN [result |-> "returned",
          log |-> <<retrieved,
                    Log("INFO", "Secret is not in JSON format. Raw secret (masked):", <<>>),
                    Log("INFO", "raw mask", Mask(Len(secret)))>>]
    ELSE LogItems(retrieved, parsed.value,
                  IF parsed.value.json = "object"
                  THEN MaskMembers(parsed.value.members, 1)
                  ELSE [result |-> "AttributeError", log |-> <<>>])

\* Lines 88-102: the secret is parsed and its values are logged masked.
LogSecret(secret) ==
    LogParsed(secret, Log("INFO", "Secret retrieved successfully", <<>>), JsonLoads(secret))

\* What get_secret_value does: it returns the secret string, or it raises a
\* ClientError or another exception.
GetOutcomes ==
    {[kind |-> "response", SecretString |-> t] : t \in SecretStrings}
    \cup {[kind |-> "ClientError"], [kind |-> "Exception"]}

\* str(secret_name) in a log line.
NameText(secret_name) ==
    IF secret_name = None THEN <<"N", "o", "n", "e">> ELSE secret_name.val

\* get_secret(): lines 53-102. An exception of get_secret_name or of either
\* client creation propagates; a secret name of None is refused by the
\* client before any request is sent.
get_secret(created, list, session, get) ==
    LET named == get_secret_name("eu-central-1", Rag, created, list)
        raised(e, requests, log) ==
            [result |-> "raised", value |-> [raised |-> e],
             requests |-> named.requests \o requests, log |-> named.log \o log]
        attempt == Log("INFO", "Attempting to retrieve secret: ", NameText(named.value))
        request == [service |-> "secretsmanager", call |-> "get_secret_value",
                    SecretId |-> named.value]
    IN  IF named.result = "raised" THEN named
        ELSE IF ~session THEN raised("Exception", <<>>, <<>>)
        ELSE IF named.value = None
        THEN raised("ParamValidationError", <<>>, <<attempt>>)
        ELSE IF get.kind = "ClientError"
        THEN raised("ClientError", <<request>>,
                    <<attempt, Log("ERROR", "An error occurred: ", <<"e">>)>>)
        ELSE IF get.kind = "Exception"
        THEN raised("Exception", <<request>>, <<attempt>>)
        ELSE LET logged == LogSecret(get.SecretString)
             IN  IF logged.result = "returned"
                 THEN [result |-> "returned", value |-> Some(get.SecretString),
                       requests |-> named.requests \o <<request>>,
                       log |-> named.log \o <<attempt>> \o logged.log]
                 ELSE raised(logged.result, <<request>>, <<attempt>> \o logged.log)

\* The listings get_secret is run against: for the one pattern "rag" a
\* listing of at most one secret gives every outcome of the name lookup.
ShortListings ==
    {l \in ListOutcomes : l.kind = "response" => Len(l.SecretList) <= 1}

\* A run of get_secret marks every call it does not make as not called.
IsRun(e) ==
    LET named == get_secret_name("eu-central-1", Rag, e.created, e.list)
    IN  /\ (e.list = NotCalled) = ~e.created
        /\ (named.result = "raised") => ~e.session
        /\ (e.get = NotCalled) = (named.result = "raised" \/ ~e.session \/ named.value = None)

\* The answers of the secret store that one run of get_secret meets.
SecretRuns ==
    {e \in {[created |-> c, list |-> l, session |-> ss, get |-> g] :
                c \in BOOLEAN, l \in ShortListings \cup {NotCalled}, ss \in BOOLEAN,
                g \in GetOutcomes \cup {NotCalled}} : IsRun(e)}

GetSecret ==
    /\ \E e \in SecretRuns :
        LET r == get_secret(e.created, e.list, e.session, e.get)
        IN  op' = Logged(Ran("get_secret", <<>>, r.requests, e, r.result, r.value), r.log)
    /\ UNCHANGED <<pdf, file, cluster, hist, pc, written>>

\* The script of lines 104-114: the outcome of get_secret is logged.
retrieve_secret_main(created, list, session, get) ==
    LET r == get_secret(created, list, session, get)
    IN  [result |-> "returned", value |-> None, requests |-> r.requests,
         log |-> r.log \o
            <<IF r.result = "returned"
              THEN Log("INFO", "Script executed successfully", <<>>)
              ELSE Log("ERROR", "An error occurred during script execution: ",
                       <<r.value.raised>>)>>]

RetrieveSecretMain ==
    /\ \E e \in SecretRuns :
        LET r == retrieve_secret_main(e.created, e.list, e.session, e.get)
        IN  op' = Logged(Ran("retrieve_secret.main", <<>>, r.requests, e, r.result,
                                r.value), r.log)
    /\ UNCHANGED <<pdf, file, cluster, hist, pc, written>>

NextSecret == GetSecret \/ RetrieveSecretMain

SpecSecret == InitResolve /\ [][NextSecret]_vars

\* The logs of the operation of the last step, had the secret string been t.
LogWith(t) ==
    LET got == [kind |-> "response", SecretString |-> t]
        e == op.responses
    IN  IF op.name = "get_secret"
        THEN get_secret(e.created, e.list, e.session, got).log
        ELSE retrieve_secret_main(e.created, e.list, e.session, got).log

\* The lengths of the values of a JSON object, member by member.
ValueLengths(o) == [i \in 1..Len(o.members) |-> Len(o.members[i].value.text)]

\* The keys of a JSON object and the kinds of their values, member by member.
KeysOf(o) == [i \in 1..Len(o.members) |-> <<o.members[i].key, o.members[i].value.json>>]

\* Two secret strings differ only in the characters of their values: both are
\* raw strings of one length, or both are objects with the same keys whose
\* values are of the same kind and length.
SameLengths(t, u) ==
    \/ t \in RawSecrets /\ u \in RawSecrets /\ Len(t) = Len(u)
    \/ \E o1 \in Objects : \E o2 \in Objects :
        /\ JsonText(o1) = t
        /\ JsonText(o2) = u
        /\ KeysOf(o1) = KeysOf(o2)
        /\ ValueLengths(o1) = ValueLengths(o2)

\* C15: the log lines of get_secret and of the script that calls it depend
\* only on the lengths of the secret's values: a run whose secret differs
\* only in value characters of equal length logs the same lines.
C15_LogsDependOnLengthsOnly ==
    (op.name \in {"get_secret", "retrieve_secret.main"}
        /\ op.responses.get.kind = "response") =>
        \A u \in SecretStrings :
            SameLengths(op.responses.get.SecretString, u) => LogWith(u) = op.log

-----------------------------------------------------------------------------
(* ask_question.py                                                         *)

\* The constants of main: lines 101-106.
LlmModelId == "amazon.titan-text-lite-v1"

Question == " Can you describe the React approach?"

\* The number of passages the default retriever of line 135 asks for.
TopK == 4

\* What the endpoint lookup meets when a script runs it: the domain has an
\* endpoint, the service call fails, or the client cannot be created.
ScriptEndpointRuns ==
    {[created |-> TRUE,
      describe |-> [kind |-> "response",
                    response |-> [DomainStatus |-> [Endpoint |->
                        "search-rag-abcdef123456.eu-central-1.es.amazonaws.com"]]]],
     [created |-> TRUE, describe |-> [kind |-> "ClientError"]],
     [created |-> FALSE, describe |-> NotCalled]}

\* What the secret lookup meets when a script runs it: the secret "rag" is
\* found and read, reading it fails, or the client cannot be created.
ScriptSecretRuns ==
    {[created |-> TRUE, list |-> [kind |-> "response", SecretList |-> <<[Name |-> Rag]>>],
      session |-> TRUE, get |-> g] :
        g \in {[kind |-> "response", SecretString |-> <<"a">>], [kind |-> "ClientError"]}}
    \cup {[created |-> FALSE, list |-> NotCalled, session |-> FALSE, get |-> NotCalled]}

\* What embed_query does for the question: it returns a vector, here given
\* by its dimension, or it raises.
QueryEmbedOutcomes ==
    {[kind |-> "vector", dimension |-> d] : d \in {1536, 1024}} \cup {[kind |-> "error"]}

\* What the language model does: it answers, or the call raises.
LlmOutcomes ==
    {[kind |-> "answer", answer |-> a] :
        a \in {"I don't know.", "The ReAct approach interleaves reasoning and acting."}}
    \cup {[kind |-> "error"]}

\* What filling the prompt template does.
FillOutcomes == {"filled", "error"}

\* The stored documents a search of the index returns: all of them up to
\* TopK, in the order of their scores.
Hits(index) ==
    IF Len(index.docs) <= TopK THEN 1..Len(index.docs) ELSE 1..TopK

\* What the search call does, for a host, an index and a query vector: the
\* call raises when there is no host to reach, when the index is absent and
\* when the vector has another dimension than the index declares; else it
\* returns the passages in some order, or raises on the way.
SearchOutcomes(host, index, embedding) ==
    IF host = None THEN {[kind |-> "error", error |-> "ConnectionError"]}
    ELSE IF ~index.exists
    THEN {[kind |-> "error", error |-> "index_not_found_exception"]}
    ELSE IF index.body # IndexBody
            \/ embedding.dimension # index.body.mappings.properties.vector_field.dimension
    THEN {[kind |-> "error", error |-> "search_phase_execution_exception"]}
    ELSE {[kind |-> "error", error |-> "TransportError"]}
         \cup {[kind |-> "hits", order |-> o] : o \in Orders(Hits(index))}

\* The page contents of the retrieved passages.
Passages(index, order) ==
    [i \in 1..Len(order) |-> index.docs[order[i]].source.text.val]

\* "\n\n".join(passages): the context block of the prompt.
RECURSIVE JoinFrom(_, _)
JoinFrom(passages, i) ==
    IF i > Len(passages) THEN <<>>
    ELSE (IF i > 1 THEN <<"\n", "\n">> ELSE <<>>) \o passages[i]
         \o JoinFrom(passages, i + 1)

\* The template of lines 122-130 with {context} and {input} filled.
FillPrompt(context, input) ==
    [template |-> "You are an assistant for question-answering tasks. ...",
     context |-> context, input |-> input]

\* The requests of the chain of lines 132-139.
QueryEmbedRequest(question) ==
    [to |-> "embedding model", modelId |-> EmbeddingModelId, inputText |-> question]

SearchRequest(host, index_name, embedding) ==
    [to |-> "search index", host |-> host, index |-> index_name,
     vector |-> embedding, size |-> TopK]

LlmRequest(prompt) ==
    [to |-> "language model", modelId |-> LlmModelId, prompt |-> prompt,
     temperature |-> 0, topP |-> 3]

\* A faulty variant of OnChainError: the failed step is skipped and the chain
\* goes on with nothing in its place.
OnChainErrorSkip(requests, error) == [done |-> FALSE, requests |-> requests]

\* An exception inside retrieval_chain.invoke: nothing catches it, the chain
\* ends and main raises.
OnChainError(requests, error) ==
    [done |-> TRUE, result |-> "raised", value |-> [raised |-> error],
     requests |-> requests]

\* A faulty variant of CombineDocs: with no passage the model is not called.
CombineDocsSkipEmpty(requests, passages, fill, llm) ==
    IF passages = <<>>
    THEN [done |-> TRUE, result |-> "returned", value |-> None, requests |-> requests]
    ELSE LET sent == Append(requests, LlmRequest(FillPrompt(JoinFrom(passages, 1), Question)))
         IN  IF llm.kind = "error"
             THEN [done |-> TRUE, result |-> "raised", value |-> [raised |-> "Exception"],
                   requests |-> sent]
             ELSE [done |-> TRUE, result |-> "returned", value |-> Some(llm.answer),
                   requests |-> sent]

\* The documents chain of line 132: the passages are joined into the prompt
\* and the language model is invoked with it.
CombineDocs(requests, passages, fill, llm) ==
    LET failed == IF fill = "error" THEN OnChainError(requests, "Exception")
                  ELSE [done |-> FALSE, requests |-> requests]
        sent == Append(failed.requests, LlmRequest(FillPrompt(JoinFrom(passages, 1), Question)))
        invoked == IF llm.kind = "error" THEN OnChainError(sent, "Exception")
                   ELSE [done |-> FALSE, requests |-> sent]
    IN  IF failed.done THEN failed
        ELSE IF invoked.done THEN invoked
        ELSE [done |-> TRUE, result |-> "returned",
              value |-> IF llm.kind = "answer" THEN Some(llm.answer) ELSE None,
              requests |-> invoked.requests]

\* retrieval_chain.invoke({"input": question}): line 139. The question is
\* embedded, the index is searched with the vector, the passages go to the
\* documents chain.
Invoke(index, host, requests, embed, search, fill, llm) ==
    LET asked == Append(requests, QueryEmbedRequest(Question))
        embedded == IF embed.kind = "error" THEN OnChainError(asked, "Exception")
                    ELSE [done |-> FALSE, requests |-> asked]
        searched == Append(embedded.requests, SearchRequest(host, Rag, embed))
        retrieved == IF search.kind = "error" THEN OnChainError(searched, search.error)
                     ELSE [done |-> FALSE, requests |-> searched]
        passages == IF search.kind = "hits" THEN Passages(index, search.order) ELSE <<>>
    IN  IF embedded.done THEN embedded
        ELSE IF retrieved.done THEN retrieved
        ELSE CombineDocs(retrieved.requests, passages, fill, llm)

\* main() of ask_question.py: lines 92-141. The endpoint lookup is the one
\* of retrieve_endpoint.py, which returns None where it fails; an exception
\* of a client creation or of get_secret leaves main.
ask_question_main(index, bedrock, endpoint, secret, embed, search, fill, llm) ==
    LET host == get_opensearch_endpoint("rag", "eu-central-1", endpoint.created,
                                        endpoint.describe)
        password == get_secret(secret.created, secret.list, secret.session, secret.get)
    IN  IF ~bedrock
        THEN [result |-> "raised", value |-> [raised |-> "Exception"], requests |-> <<>>]
        ELSE IF host.result = "raised"
        THEN [result |-> "raised", value |-> host.value, requests |-> host.requests]
        ELSE IF password.result = "raised"
        THEN [result |-> "raised", value |-> password.value,
              requests |-> host.requests \o password.requests]
        ELSE LET r == Invoke(index, host.value, host.requests \o password.requests,
                             embed, search, fill, llm)
             IN  [result |-> r.result, value |-> r.value, requests |-> r.requests]

\* The outcomes of the steps of one run of main, every step that is not
\* reached marked as not called.
AskRuns(index) ==
    LET hostOf(e) == get_opensearch_endpoint("rag", "eu-central-1", e.created, e.describe)
        secretOf(x) == get_secret(x.created, x.list, x.session, x.get)
        run(b, e, x, em, se, f, l) ==
            [bedrock |-> b, endpoint |-> e, secret |-> x, embed |-> em, search |-> se,
             fill |-> f, llm |-> l]
        skipped == [kind |-> "not called"]
    IN  {run(FALSE, [created |-> FALSE, describe |-> NotCalled],
             [created |-> FALSE, list |-> NotCalled, session |-> FALSE, get |-> NotCalled],
             skipped, skipped, "not called", skipped)}
        \cup UNION {
            IF hostOf(e).result = "raised"
            THEN {run(TRUE, e, [created |-> FALSE, list |-> NotCalled, session |-> FALSE,
                                get |-> NotCalled], skipped, skipped, "not called", skipped)}
            ELSE UNION {
                IF secretOf(x).result = "raised"
                THEN {run(TRUE, e, x, skipped, skipped, "not called", skipped)}
                ELSE UNION {
                    IF em.kind = "error"
                    THEN {run(TRUE, e, x, em, skipped, "not called", skipped)}
                    ELSE UNION {
                        IF se.kind = "error"
                        THEN {run(TRUE, e, x, em, se, "not called", skipped)}
                        ELSE {run(TRUE, e, x, em, se, "error", skipped)}
                             \cup {run(TRUE, e, x, em, se, "filled", l) : l \in LlmOutcomes}
                        : se \in SearchOutcomes(hostOf(e).value, index, em)}
                    : em \in QueryEmbedOutcomes}
                : x \in ScriptSecretRuns}
            : e \in ScriptEndpointRuns}

AskQuestionMain ==
    /\ \E e \in AskRuns(cluster[Rag]) :
        LET r == ask_question_main(cluster[Rag], e.bedrock, e.endpoint, e.secret,
                                   e.embed, e.search, e.fill, e.llm)
        IN  op' = Ran("ask_question.main", cluster[Rag], r.requests, e, r.result, r.value)
    /\ UNCHANGED <<pdf, file, cluster, hist, pc, written>>

-----------------------------------------------------------------------------
(* delete_index.py: the script                                             *)

\* The requests delete_all_indices sends through the client of host.
AliasRequest(host) == [to |-> "search index", host |-> host, call |-> "get_alias"]

DeleteRequests(host, names) ==
    [i \in 1..Len(names) |->
        [to |-> "search index", host |-> host, call |-> "delete", index |-> names[i]]]

\* What the listing of line 92 meets: without a host no listing arrives.
ScriptListings(host, cl) ==
    IF host = None THEN {[listed |-> FALSE, order |-> <<>>]}
    ELSE {[listed |-> l, order |-> o] : l \in BOOLEAN, o \in Orders(Existing(cl))}

\* The script of lines 104-122: the secret, the endpoint, the client, then
\* delete_all_indices. Nothing is caught: an exception ends the script. The
\* endpoint lookup is the one of retrieve_endpoint.py, whose None goes into
\* the client as its host.
delete_index_main(cl, secret, endpoint, listing, outcomes) ==
    LET password == get_secret(secret.created, secret.list, secret.session, secret.get)
        host == get_opensearch_endpoint("rag", "eu-central-1", endpoint.created,
                                        endpoint.describe)
        st == delete_all_indices(cl, listing.order, listing.listed, outcomes)
    IN  IF password.result = "raised"
        THEN [result |-> "raised", value |-> password.value,
              requests |-> password.requests, cluster |-> cl]
        ELSE IF host.result = "raised"
        THEN [result |-> "raised", value |-> host.value,
              requests |-> password.requests \o host.requests, cluster |-> cl]
        ELSE [result |-> "returned", value |-> "Script execution completed",
              requests |-> password.requests \o host.requests
                           \o <<AliasRequest(host.value)>>
                           \o DeleteRequests(host.value, st.requests)
                           \o <<AliasRequest(host.value)>>,
              cluster |-> st.cluster]

DeleteIndexMain ==
    /\ \E secret \in ScriptSecretRuns : \E endpoint \in ScriptEndpointRuns :
        LET host == get_opensearch_endpoint("rag", "eu-central-1", endpoint.created,
                                            endpoint.describe)
        IN  \E listing \in ScriptListings(IF host.result = "raised" THEN None
                                          ELSE host.value, cluster) :
            \E outcomes \in [{listing.order[i] : i \in 1..Len(listing.order)}
                                -> DeleteOutcomes] :
                LET r == delete_index_main(cluster, secret, endpoint, listing, outcomes)
                IN  /\ cluster' = r.cluster
                    /\ op' = Ran("delete_index.main", <<>>, r.requests,
                                 [secret |-> secret, endpoint |-> endpoint],
                                 r.result, r.value)
                    /\ hist' = HistAfter(r.cluster)
    /\ UNCHANGED <<pdf, file, pc, written>>

-----------------------------------------------------------------------------
(* The scripts that question and clear the index "rag".                    *)

\* The index "rag" before a script runs: absent, created and empty, or
\* holding the documents of one or two pages.
QueryIndexStates ==
    {NoIndex, NewIndex(IndexBody),
     [NewIndex(IndexBody) EXCEPT !.docs = <<SampleDoc>>],
     [NewIndex(IndexBody) EXCEPT !.docs =
        <<SampleDoc,
          [id |-> [auto |-> 2],
           source |-> [text |-> Some(<<"a", " ", "a">>),
                       vector_field |-> Some(<<4, 5, 6>>)]]>>]}

InitQuery ==
    /\ pdf = Unopenable
    /\ file = NoFile
    /\ cluster \in {[n \in IndexNames |->
                        IF n = Rag THEN i ELSE IF n = Kibana THEN NewIndex(DynamicBody)
                        ELSE NoIndex] : i \in QueryIndexStates}
    /\ op = NoOp
    /\ hist = FreshHist
    /\ pc = <<>>
    /\ written = <<>>

NextQuery == AskQuestionMain \/ DeleteIndexMain

SpecQuery == InitQuery /\ [][NextQuery]_vars

-----------------------------------------------------------------------------
(* Claims about the scripts.                                               *)

\* A request to the search index, the embedding model or the language model.
IsBackend(request) == "to" \in DOMAIN request

BackendRequests == SelectSeq(op.requests, IsBackend)

\* The endpoint lookup of the last script run failed: it raised or gave None.
EndpointFailed ==
    LET host == get_opensearch_endpoint("rag", "eu-central-1",
                    op.responses.endpoint.created, op.responses.endpoint.describe)
    IN  host.result = "raised" \/ host.value = None

\* The secret lookup of the last script run failed, or was never reached
\* because an earlier setup step had failed.
SecretFailed ==
    get_secret(op.responses.secret.created, op.responses.secret.list,
               op.responses.secret.session, op.responses.secret.get).result = "raised"

\* The Bedrock client of the last run of ask_question.main could not be created.
ClientFailed == op.name = "ask_question.main" /\ ~op.responses.bedrock

\* C16: after a connection-setup failure (the endpoint lookup, the secret
\* lookup or a client creation failing) a script sends no request to the
\* search index, the embedding model or the language model, and does not
\* report that it completed.
C16_SetupFailureAborts ==
    (op.name \in {"ask_question.main", "delete_index.main"}
        /\ (ClientFailed \/ EndpointFailed \/ SecretFailed)) =>
        /\ BackendRequests = <<>>
        /\ op.result = "raised"

\* The last run of ask_question.main got through setup and invoked the chain.
Invoked == op.name = "ask_question.main" /\ op.responses.embed.kind # "not called"

\* The requests of the three steps of the chain that send one.
EmbedSent == QueryEmbedRequest(Question)

SearchSent ==
    [to |-> "search index",
     host |-> Some(op.responses.endpoint.describe.response.DomainStatus.Endpoint),
     index |-> Rag, vector |-> op.responses.embed, size |-> 4]

\* The step of the chain that failed in the last run, if one did.
FailedStep ==
    IF op.responses.embed.kind = "error" THEN "embed-question"
    ELSE IF op.responses.search.kind = "error" THEN "retrieve"
    ELSE IF op.responses.fill = "error" THEN "fill-prompt"
    ELSE IF op.responses.llm.kind = "error" THEN "invoke-model"
    ELSE "none"

\* C17: a failure of embed-question, retrieve, fill-prompt or invoke-model
\* leaves main as an exception: no step after the failing one sends a
\* request, every step before it sent exactly one (none is tried again), and
\* no answer is reported.
C17_ChainFailureIsFatal ==
    (Invoked /\ FailedStep # "none") =>
        /\ op.result = "raised"
        /\ "raised" \in DOMAIN op.value
        /\ FailedStep = "embed-question" => BackendRequests = <<EmbedSent>>
        /\ FailedStep \in {"retrieve", "fill-prompt"} =>
            (/\ Len(BackendRequests) = 2
             /\ BackendRequests[1] = EmbedSent
             /\ BackendRequests[2].to = "search index")
        /\ FailedStep = "invoke-model" =>
            (/\ Len(BackendRequests) = 3
             /\ BackendRequests[1] = EmbedSent
             /\ BackendRequests[2].to = "search index"
             /\ BackendRequests[3].to = "language model")

\* C17 witness: the search failed on the way after the question was
\* embedded: two requests were sent, none to the language model, and main
\* raised.
C17_Witness ==
    /\ Invoked
    /\ op.responses.search = [kind |-> "error", error |-> "TransportError"]
    /\ BackendRequests = <<EmbedSent, SearchSent>>
    /\ op.result = "raised"
    /\ op.value = [raised |-> "TransportError"]

\* Retrieval returned zero passages in the last run.
ZeroPassages ==
    /\ Invoked
    /\ op.responses.search.kind = "hits"
    /\ op.responses.search.order = <<>>

\* C18: when retrieval returns zero passages and the template is filled, the
\* language model is still invoked exactly once, with the template filled
\* with an empty context and the question, and the answer of the model is
\* what main reports.
C18_EmptyContextStillAsks ==
    (ZeroPassages /\ op.responses.fill = "filled") =>
        /\ Len(BackendRequests) = 3
        /\ BackendRequests[3].to = "language model"
        /\ BackendRequests[3].modelId = "amazon.titan-text-lite-v1"
        /\ BackendRequests[3].prompt.context = <<>>
        /\ BackendRequests[3].prompt.input = " Can you describe the React approach?"
        /\ op.responses.llm.kind = "answer" =>
            (op.result = "returned" /\ op.value = Some(op.responses.llm.answer))

\* C18 witness: the index "rag" exists and is empty, the search returned no
\* passage, and the answer of the model was reported.
C18_Witness ==
    /\ ZeroPassages
    /\ op.input = NewIndex(IndexBody)
    /\ Len(BackendRequests) = 3
    /\ BackendRequests[3].prompt.context = <<>>
    /\ op.result = "returned"
    /\ op.value = Some("I don't know.")

\* C19: against an index created with vector_field dimension 1536, a query
\* whose embedding has another dimension fails with a configuration error
\* before any request is sent to the embedding model, the search index or
\* the language model, and a query embedding of dimension 1536 succeeds
\* when every call does.
C19_DimensionCheckedBeforeCalls ==
    (Invoked /\ op.input.exists /\ op.responses.embed.kind = "vector") =>
        /\ op.responses.embed.dimension # 1536 =>
            (/\ op.result = "raised"
             /\ op.value = [raised |-> "ConfigurationError"]
             /\ BackendRequests = <<>>)
        /\ (/\ op.responses.embed.dimension = 1536
            /\ op.responses.search.kind = "hits"
            /\ op.responses.fill = "filled"
            /\ op.responses.llm.kind = "answer") => op.result = "returned"

-----------------------------------------------------------------------------
(* The intermediate file written by generate_embeddings.py and read back   *)
(* by ingest_docs_with_embeddings.py.                                      *)

\* The texts of the page records of a round trip: empty, ASCII, non-ASCII
\* and mixed.
RoundTripTexts == {<<>>, <<"a">>, <<"U+00E9">>, <<"a", "U+00E9">>}

\* The page records {page_number, text, vector_field} of a round trip.
RoundTripRecords ==
    {[page_number |-> n, text |-> t, vector_field |-> <<1, 2, 3>>] :
        n \in 1..2, t \in RoundTripTexts}

\* The sequences of at most MaxPages page records.
RoundTripPages == UNION {[1..n -> RoundTripRecords] : n \in 0..MaxPages}

\* The with statement of lines 128-129 of generate_embeddings.py on a list
\* of page records.
DumpPages ==
    /\ \E pages \in RoundTripPages :
        /\ file' = JsonDump(pages)
        /\ op' = Ran("json.dump", pages, <<>>, <<>>, "returned", "None")
    /\ UNCHANGED <<pdf, cluster, hist, pc, written>>

\* The with statement of lines 104-105 of ingest_docs_with_embeddings.py on
\* the file as it is, opened with the preferred encoding of the platform.
LoadPages ==
    /\ file.exists
    /\ \E encoding \in PreferredEncodings :
        op' = Ran("json.load", file, <<>>, encoding, "returned",
                  JsonLoad(file, encoding))
    /\ UNCHANGED <<pdf, file, cluster, hist, pc, written>>

InitRoundTrip ==
    /\ pdf = Unopenable
    /\ file = NoFile
    /\ cluster = [n \in IndexNames |-> NoIndex]
    /\ op = NoOp
    /\ hist = FreshHist
    /\ pc = <<>>
    /\ written = <<>>

NextRoundTrip == DumpPages \/ LoadPages

SpecRoundTrip == InitRoundTrip /\ [][NextRoundTrip]_vars

\* C20: whatever sequence of page records was written to the file, reading
\* the file back yields the same sequence, record for record and field for
\* field, texts with non-ASCII characters included.
C20_FileRoundTrip ==
    op.name = "json.load" =>
        \A pages \in RoundTripPages :
            JsonDump(pages) = op.input => op.value = PyList(pages)

-----------------------------------------------------------------------------
(* generate_embeddings.py: main and the pages whose embedding failed.      *)

\* The last run of main extracted the pages, and at least one embed_query
\* call raised.
EmbedFailed ==
    /\ op.name = "generate_embeddings.main"
    /\ \E i \in DOMAIN op.responses : ~op.responses[i].ok

\* The file holds one object for every extracted page, in order.
EveryPageWritten ==
    /\ file.exists
    /\ Len(file.array) = Len(extract_text_from_pdf(pdf).value)
    /\ \A i \in 1..Len(file.array) :
        Get(JsonLoad(file, "utf-8").items[i], "text")
            = Some(extract_text_from_pdf(pdf).value[i].text)

\* C21: whichever pages fail to embed, the first included, main writes the
\* intermediate file with every extracted page and then finishes without
\* raising (a failure to write the file apart).
C21_EmbedFailureNotFatal ==
    (EmbedFailed /\ op.value # "OSError") =>
        (EveryPageWritten /\ op.result = "returned")

-----------------------------------------------------------------------------
(* ingest_docs_with_embeddings.py: ingest_data called with any value.      *)

\* tuple(pages): the same pages, in a value that is no list.
PyTuple(items) == [type |-> "tuple", items |-> items]

\* {}: a dict, which holds no pages.
EmptyDict == [type |-> "dict", items |-> <<>>]

\* The values a caller may pass as data: the list json.load made of the
\* file, the same pages as a tuple, and an empty dict.
DataValues(f, encoding) ==
    {JsonLoad(f, encoding), PyTuple(JsonLoad(f, encoding).items), EmptyDict}

\* ingest_data(client, "rag", data) for any of these values; outcomes[i] is
\* what the server does with request i, should it be sent.
IngestDataOn ==
    /\ file.exists
    /\ hist.runs < MaxRuns
    /\ \E encoding \in PreferredEncodings :
       \E data \in DataValues(file, encoding) :
       \E outcomes \in [1..Len(data.items) -> IndexOutcomes] :
           LET r == ingest_data(cluster[Rag], Rag, data, outcomes)
               answered == SubSeq(outcomes, 1, Len(r.requests))
           IN  /\ cluster' = [cluster EXCEPT ![Rag] = r.index]
               /\ op' = Ran("ingest_data", data, r.requests, answered, r.result, r.value)
               /\ hist' = Counted(hist, r.result = "returned" /\ AllCreated(answered))
    /\ UNCHANGED <<pdf, file, pc, written>>

NextIngestOn == IngestDataOn \/ DeleteOpensearchIndex(Rag)

SpecIngestOn == InitIngest /\ [][NextIngestOn]_vars

\* C22: ingest_data raises ValueError exactly for data that is no list, and
\* then before any index request: none is sent and the index is as it was.
C22_NonListRejected ==
    /\ [](op.name = "ingest_data" =>
            /\ (op.result = "raised" /\ op.value = "ValueError")
                   <=> (op.input.type # "list")
            /\ (op.input.type = "list") => op.result = "returned"
            /\ (op.input.type # "list") => op.requests = <<>>)
    /\ [][(op'.name = "ingest_data" /\ op'.input.type # "list") =>
            cluster' = cluster]_vars

\* C22 witness: a tuple of two pages was refused, and the two documents of
\* an earlier run are all the index holds.
C22_Witness ==
    /\ op.name = "ingest_data"
    /\ op.input.type = "tuple"
    /\ Len(op.input.items) = 2
    /\ op.result = "raised"
    /\ op.value = "ValueError"
    /\ op.requests = <<>>
    /\ Len(DocsOf(cluster[Rag])) = 2

\* C23: every document ingest_data writes has the two fields text and
\* vector_field and no other, each with the value the page record has for
\* it; the page number is in no document, sent or stored, and no write
\* names a document id.
C23_DocumentIsTextAndVector ==
    /\ op.name = "ingest_data" =>
        \A i \in 1..Len(op.requests) :
            /\ DOMAIN op.requests[i].body = {"text", "vector_field"}
            /\ \A k \in {"text", "vector_field"} :
                op.requests[i].body[k] = Get(op.input.items[i], k)
            /\ op.requests[i].id = None
    /\ \A i \in 1..Len(DocsOf(cluster[Rag])) :
        "page_number" \notin DOMAIN cluster[Rag].docs[i].source

\* C23 witness: two numbered pages were written and stored; the second
\* stored document is the body of the second request.
C23_Witness ==
    /\ op.name = "ingest_data"
    /\ op.responses = <<"created", "created">>
    /\ \A i \in 1..2 : "page_number" \in DOMAIN op.input.items[i]
    /\ "vector_field" \in DOMAIN op.input.items[2]
    /\ Len(DocsOf(cluster[Rag])) = 2
    /\ cluster[Rag].docs[2].source = op.requests[2].body

-----------------------------------------------------------------------------
(* Ingestion request by request, into an index that create_index.py made   *)
(* or into a cluster where "rag" does not exist.                           *)

InitAppend ==
    /\ pdf \in SamplePDFs
    /\ file \in GeneratedFiles(pdf)
    /\ cluster \in {RagCreated, [n \in IndexNames |-> NoIndex]}
    /\ op = NoOp
    /\ hist = FreshHist
    /\ pc = [p \in Procs |-> 1]
    /\ written = [p \in Procs |-> 0]

NextAppend == \E p \in Procs : IngestProcStep(p)

SpecAppend == InitAppend /\ [][NextAppend]_vars

\* The settings and mappings of an index, if it exists.
Schema(index) == IF index.exists THEN Some(index.body) ELSE None

\* Every document the index held before the step is in it after the step,
\* at its place and unmodified; the other indices are as they were.
DocumentsKept ==
    /\ IsPrefix(DocsOf(cluster[Rag]), DocsOf(cluster'[Rag]))
    /\ Len(DocsOf(cluster'[Rag])) >= Len(DocsOf(cluster[Rag]))
    /\ \A n \in IndexNames \ {Rag} : cluster'[n] = cluster[n]

-----------------------------------------------------------------------------
(* delete_index.py: a listing that fails.                                  *)

\* C25: when the listing raises, list_all_indices returns the empty list
\* and does not raise; delete_all_indices then sends no delete request,
\* leaves every index as it was and returns without raising.
C25_ListFailureDeletesNothing ==
    /\ []((op.name = "list_all_indices" /\ op.responses = <<FALSE>>) =>
            (op.result = "returned" /\ op.value = <<>>))
    /\ [][(op'.name = "delete_all_indices" /\ ~op'.listed) =>
            /\ op'.input = <<>>
            /\ op'.requests = <<>>
            /\ op'.result = "returned"
            /\ cluster' = cluster]_vars

\* C25 witness: delete_all_indices ran with a failing listing on a cluster
\* whose three indices exist, "rag" with a document: all are still there.
C25_Witness ==
    /\ op.name = "delete_all_indices"
    /\ ~op.listed
    /\ op.requests = <<>>
    /\ op.result = "returned"
    /\ \A n \in IndexNames : cluster[n].exists
    /\ Len(DocsOf(cluster[Rag])) > 0

====
